---------------------------- MODULE Spec2Model ----------------------------
(***************************************************************************)
(* A model of osiris: the traffic-counting proxy sidecar, the zeroscaler's *)
(* metrics collector, and the activator's host index.                      *)
(*                                                                         *)
(* Strings are sequences of tokens.  A token is a piece of text that the   *)
(* code never splits: a name, a number, or one of the single characters    *)
(* the code looks at (whitespace, the single quote, ',', ':', '/', '.',    *)
(* '-').  fmt.Sprintf is concatenation of such sequences and a number      *)
(* printed with %d is the sequence of its decimal digits.                  *)
(***************************************************************************)
EXTENDS Integers, Sequences, FiniteSets, TLC

\* ------------------------------------------------------------------------
\* State
\* ------------------------------------------------------------------------

VARIABLES
  \* annotation cleaning
  cleanPc,        \* "raw", "once", "twice": how often the value was cleaned
  cleanPkg,       \* "activator" or "zeroscaler": whose cleanAnnotationValue
  rawValue,       \* the raw annotation value
  cleanOnce,      \* cleanAnnotationValue(rawValue)
  cleanTwice,     \* cleanAnnotationValue(cleanOnce)
  \* proxy sidecar
  requestCount,   \* *s.requestCount
  initialCount,   \* the value of *s.requestCount when the proxy was built
  ignoredPaths,   \* s.ignoredPaths
  req,            \* the requests: where each handler is, and what it did
  \* proxy sidecar: run
  runPc,          \* where run is: "new", "started", "serving", "returned"
  watcherPc,      \* run's goroutine: "none", "select", "draining", "done"
  srvState,       \* s.srv: "new", "listening", "shutdown", "failed"
  proxyCancelled, \* the context passed to run is done
  doneCh,         \* doneCh is closed
  drainExpired,   \* shutdownCtx is done: Shutdown's five seconds are over
  \* zeroscaler's metrics collector
  colPc,          \* where run/collectMetrics is: "new", "wait" (in the outer
                  \* select), "launching" (in a tick, in the loop over
                  \* m.appPods), "scraping" (in a tick, at scrapeWG.Wait()
                  \* or after it), "exited", "crashed"
  appKind,        \* m.config.appKind
  appPods,        \* m.appPods, as the set of its keys (pod names)
  appPodsLock,    \* m.appPodsLock: "free", or "tick" while collectMetrics
                  \* holds it (the informer's handlers hold it within
                  \* their one step only)
  informer,       \* m.podsInformer: "new", "running", "stopped"
  cancelled,      \* the collector's context is done
  tickPods,       \* the pods whose scrape the current tick launched
  pending,        \* the pods whose scrape has not returned (scrapeWG)
  mustNotDecide,  \* the tick's mustNotDecide
  timerFired,     \* the tick's 3 s timer has fired
  tickNil,        \* a scrape of the current tick returned nil
  requestCountsByProxy,    \* collectMetrics' map proxy ID -> count
  lastTotalRequestCount,   \* collectMetrics' lastTotalRequestCount
  dependenciesAnnotation,  \* the workload's osiris.dm.gg/dependencies
  patches,        \* the replicas=0 patches of the last scaleToZero, in order
  lastGet,        \* how the last scaleToZero's Get ended: "none", "ok", "failed"
  tickCompleted,  \* a tick has run to its end, where lastTotalRequestCount
                  \* is set
  lastTickSkipped, \* the last tick that ran to its end had mustNotDecide
                  \* set there
  tickReports,    \* what the scrapes of the last tick begun returned, by pod:
                  \* the proxy ID, its count, and the count the table held
                  \* for that ID (kept for collectors whose proxies are
                  \* observed, empty otherwise)
  \* activator's host index
  services,       \* a.services, in the order updateIndex visits them
  deployments,    \* a.deployments: key -> the deployment's annotations
  statefulSets,   \* a.statefulSets: key -> the statefulset's annotations
  nodeAddresses,  \* a.nodeAddresses, as the set of its keys
  appsByHost,     \* a.appsByHost: the published index
  idxPc,          \* where updateIndex is: "idle", "building", "crashed"
  building,       \* updateIndex's local appsByHost
  nextSvc,        \* the position in a.services of the next service to index
  runs,           \* how many runs of updateIndex have completed
  prevIndex,      \* the index that the last completed run replaced
  observed,       \* the map a reader last got from a.appsByHost
  \* activator's activation records
  actRecords,     \* the activation records created so far, oldest first
  recordByKey,    \* the record map: (namespace, kind, name) -> its record
  actReq          \* the cold-start requests: where each handler is

cleanVars == <<cleanPc, cleanPkg, rawValue, cleanOnce, cleanTwice>>

proxyVars == <<requestCount, initialCount, ignoredPaths, req>>

collectorVars ==
  <<colPc, appKind, appPods, informer, cancelled, tickPods, pending,
    mustNotDecide, timerFired, tickNil, requestCountsByProxy,
    lastTotalRequestCount, dependenciesAnnotation, patches, lastGet,
    tickCompleted, lastTickSkipped, appPodsLock, tickReports>>

indexVars ==
  <<services, deployments, statefulSets, nodeAddresses, appsByHost, idxPc,
    building, nextSvc, runs, prevIndex, observed>>

runVars ==
  <<runPc, watcherPc, srvState, proxyCancelled, doneCh, drainExpired>>

activationVars == <<actRecords, recordByKey, actReq>>

vars ==
  <<cleanVars, proxyVars, runVars, collectorVars, indexVars, activationVars>>

otherThanClean ==
  <<proxyVars, runVars, collectorVars, indexVars, activationVars>>

otherThanProxy ==
  <<cleanVars, runVars, collectorVars, indexVars, activationVars>>

otherThanRun ==
  <<cleanVars, proxyVars, collectorVars, indexVars, activationVars>>

otherThanCollector ==
  <<cleanVars, proxyVars, runVars, indexVars, activationVars>>

otherThanIndex ==
  <<cleanVars, proxyVars, runVars, collectorVars, activationVars>>

otherThanActivation ==
  <<cleanVars, proxyVars, runVars, collectorVars, indexVars>>

\* ------------------------------------------------------------------------
\* Strings
\* ------------------------------------------------------------------------

\* unicode.IsSpace, as far as the model's alphabet goes: blank and tab.
Space == {" ", "\t"}

Quote == {"'"}

RECURSIVE TrimLeft(_, _)
\* strings.TrimLeft(s, cutset): drop every leading token of the cutset.
TrimLeft(s, cutset) ==
  IF s = <<>> THEN s
  ELSE IF Head(s) \in cutset THEN TrimLeft(Tail(s), cutset)
  ELSE s

RECURSIVE TrimRight(_, _)
\* strings.TrimRight(s, cutset): drop every trailing token of the cutset.
TrimRight(s, cutset) ==
  IF s = <<>> THEN s
  ELSE IF s[Len(s)] \in cutset THEN TrimRight(SubSeq(s, 1, Len(s) - 1), cutset)
  ELSE s

\* strings.TrimSpace(s)
TrimSpace(s) == TrimRight(TrimLeft(s, Space), Space)

\* activator's cleanAnnotationValue
cleanAnnotationValue(raw) ==
  LET value1 == TrimSpace(raw)
      value2 == TrimLeft(value1, Quote)
      value3 == TrimRight(value2, Quote)
  IN  value3

\* zeroscaler's cleanAnnotationValue (a copy of the activator's)
zeroscalerCleanAnnotationValue(raw) ==
  LET value1 == TrimSpace(raw)
      value2 == TrimLeft(value1, Quote)
      value3 == TrimRight(value2, Quote)
  IN  value3

\* ------------------------------------------------------------------------
\* Annotation cleaning applied to arbitrary values
\* ------------------------------------------------------------------------

\* Longest raw annotation value tried.
MaxLen == 4

\* The characters raw values are made of: whitespace, the quote, a letter.
CleanAlphabet == {" ", "\t", "'", "a"}

RawValues == UNION {[1..n -> CleanAlphabet] : n \in 0..MaxLen}

CleanOf(pkg, v) ==
  IF pkg = "activator" THEN cleanAnnotationValue(v)
  ELSE zeroscalerCleanAnnotationValue(v)

CleanInit ==
  /\ cleanPc = "raw"
  /\ cleanPkg \in {"activator", "zeroscaler"}
  /\ rawValue \in RawValues
  /\ cleanOnce = <<>>
  /\ cleanTwice = <<>>

CleanIdle ==
  /\ cleanPc = "raw"
  /\ cleanPkg = "activator"
  /\ rawValue = <<>>
  /\ cleanOnce = <<>>
  /\ cleanTwice = <<>>

CleanFirst ==
  /\ cleanPc = "raw"
  /\ cleanOnce' = CleanOf(cleanPkg, rawValue)
  /\ cleanPc' = "once"
  /\ UNCHANGED <<cleanPkg, rawValue, cleanTwice>>
  /\ UNCHANGED otherThanClean

CleanSecond ==
  /\ cleanPc = "once"
  /\ cleanTwice' = CleanOf(cleanPkg, cleanOnce)
  /\ cleanPc' = "twice"
  /\ UNCHANGED <<cleanPkg, rawValue, cleanOnce>>
  /\ UNCHANGED otherThanClean

\* ------------------------------------------------------------------------
\* Proxy sidecar (package proxy): singlePortProxy
\* ------------------------------------------------------------------------

\* Requests served by the proxy, each by a goroutine of its own.
MaxRequests == 2

\* The width of the request counter in the model (the code's is a uint64).
CounterBits == 2

CounterModulus == 2 ^ CounterBits

Requests == 1..MaxRequests

\* The URL paths of the requests.  http.ServeMux redirects a request with an
\* empty path before it reaches the handler, so every path is non-empty.
Paths == {"/", "/metrics", "/api"}

\* The ignoredPaths the proxy may be constructed with.
IgnoredPathChoices == {{}, {"/metrics"}, {"", "/metrics", "/healthz"}}

\* The User-Agent headers of the requests; <<>> is a request without one.
UserAgents ==
  { <<>>,
    <<"curl", "/", "8.0">>,
    <<"kube-probe", "/", "1.27">>,
    <<"Mozilla", " ", "kube-probe">> }

NoRequest ==
  [pc |-> "idle", path |-> "/", ua |-> <<>>, counted |-> FALSE, attr |-> 0,
   loaded |-> 0]

\* strings.Contains(s, substr) for a one-token substr
Contains(s, substr) == \E i \in 1..Len(s) : s[i] = substr

\* A probe test that looks at the start of the User-Agent only.
isKubeProbePrefix(r) == r.ua # <<>> /\ r.ua[1] = "kube-probe"

isKubeProbe(r) == Contains(r.ua, "kube-probe")

isIgnoredPath(r) ==
  IF r.path = "" THEN FALSE
  ELSE r.path \in ignoredPaths

isIgnoredRequest(r) == isIgnoredPath(r) \/ isKubeProbe(r)

ProxyInit ==
  /\ initialCount \in {0, CounterModulus - 1}
  /\ requestCount = initialCount
  /\ ignoredPaths \in IgnoredPathChoices
  /\ req = [r \in Requests |-> NoRequest]

ProxyIdle ==
  /\ initialCount = 0
  /\ requestCount = 0
  /\ ignoredPaths = {}
  /\ req = [r \in Requests |-> NoRequest]

\* The server accepts a request and starts handleRequest for it.
Arrive(r) ==
  /\ req[r].pc = "idle"
  /\ \E path \in Paths, ua \in UserAgents :
       req' = [req EXCEPT ![r] = [@ EXCEPT !.pc = "handle", !.path = path,
                                          !.ua = ua]]
  /\ UNCHANGED <<requestCount, initialCount, ignoredPaths>>
  /\ UNCHANGED otherThanProxy

\* handleRequest, the ignored branch: the request is not counted.
SkipRequest(r) ==
  /\ req[r].pc = "handle"
  /\ isIgnoredRequest(req[r])
  /\ req' = [req EXCEPT ![r] = [@ EXCEPT !.pc = "forward"]]
  /\ UNCHANGED <<requestCount, initialCount, ignoredPaths>>
  /\ UNCHANGED otherThanProxy

\* A counting step that reads the counter and writes it back in two steps.
RacyCountRequest(r) ==
  \/ /\ req[r].pc = "handle"
     /\ ~isIgnoredRequest(req[r])
     /\ req' = [req EXCEPT ![r] = [@ EXCEPT !.pc = "loaded",
                                            !.loaded = requestCount]]
     /\ UNCHANGED <<requestCount, initialCount, ignoredPaths>>
     /\ UNCHANGED otherThanProxy
  \/ /\ req[r].pc = "loaded"
     /\ requestCount' = (req[r].loaded + 1) % CounterModulus
     /\ req' = [req EXCEPT ![r] = [@ EXCEPT !.pc = "forward",
                                            !.counted = TRUE,
                                            !.attr = requestCount']]
     /\ UNCHANGED <<initialCount, ignoredPaths>>
     /\ UNCHANGED otherThanProxy

\* handleRequest, the counting branch: atomic.AddUint64(s.requestCount, 1),
\* and the new value becomes the span's attribute.
CountRequest(r) ==
  /\ req[r].pc = "handle"
  /\ ~isIgnoredRequest(req[r])
  /\ requestCount' = (requestCount + 1) % CounterModulus
  /\ req' = [req EXCEPT ![r] = [@ EXCEPT !.pc = "forward",
                                         !.counted = TRUE,
                                         !.attr = requestCount']]
  /\ UNCHANGED <<initialCount, ignoredPaths>>
  /\ UNCHANGED otherThanProxy

\* handleRequest's last statement: s.proxyRequestHandler.ServeHTTP(w, r).
Forward(r) ==
  /\ req[r].pc = "forward"
  /\ req' = [req EXCEPT ![r] = [@ EXCEPT !.pc = "done"]]
  /\ UNCHANGED <<requestCount, initialCount, ignoredPaths>>
  /\ UNCHANGED otherThanProxy

ProxyNext ==
  \E r \in Requests :
     Arrive(r) \/ SkipRequest(r) \/ CountRequest(r) \/ Forward(r)

\* ------------------------------------------------------------------------
\* Proxy sidecar (package proxy): singlePortProxy.run
\* ------------------------------------------------------------------------
\* net/http, as its documentation has it: Shutdown closes the listeners and
\* then waits until every connection is idle or its context is done, without
\* interrupting a connection; and once Shutdown has been called, Serve and
\* ListenAndServe return ErrServerClosed at once.

ProxyRunInit ==
  /\ runPc = "new"
  /\ watcherPc = "none"
  /\ srvState = "new"
  /\ proxyCancelled \in BOOLEAN
  /\ doneCh = FALSE
  /\ drainExpired = FALSE

ProxyRunIdle ==
  /\ runPc = "new"
  /\ watcherPc = "none"
  /\ srvState = "new"
  /\ proxyCancelled = FALSE
  /\ doneCh = FALSE
  /\ drainExpired = FALSE

\* run starts the goroutine that waits for the context or for doneCh.
RunStart ==
  /\ runPc = "new"
  /\ runPc' = "started"
  /\ watcherPc' = "select"
  /\ UNCHANGED <<srvState, proxyCancelled, doneCh, drainExpired>>
  /\ UNCHANGED otherThanRun

\* run calls s.srv.ListenAndServe(): the server listens, or fails to, or
\* has been shut down already.
Listen ==
  /\ runPc = "started"
  /\ runPc' = "serving"
  /\ srvState' \in IF srvState = "new" THEN {"listening", "failed"}
                  ELSE {srvState}
  /\ UNCHANGED <<watcherPc, proxyCancelled, doneCh, drainExpired>>
  /\ UNCHANGED otherThanRun

\* The context passed to run is cancelled.
ProxyCancel ==
  /\ ~proxyCancelled
  /\ runPc # "new"
  /\ proxyCancelled' = TRUE
  /\ UNCHANGED <<runPc, watcherPc, srvState, doneCh, drainExpired>>
  /\ UNCHANGED otherThanRun

\* The listening server stops on its own, on an error.
ServerFails ==
  /\ srvState = "listening"
  /\ srvState' = "failed"
  /\ UNCHANGED <<runPc, watcherPc, proxyCancelled, doneCh, drainExpired>>
  /\ UNCHANGED otherThanRun

\* The requests the server is serving.
InFlight == {r \in Requests : req[r].pc \notin {"idle", "done"}}

\* The listening server accepts a connection and starts handleRequest for
\* its request.
Accept(r) ==
  /\ srvState = "listening"
  /\ Arrive(r)

\* The goroutine's case <-ctx.Done(): s.srv.Shutdown(shutdownCtx) is called
\* with a context of five seconds, and closes the listeners.
WatcherShutdown ==
  /\ watcherPc = "select"
  /\ proxyCancelled
  /\ watcherPc' = "draining"
  /\ srvState' = IF srvState \in {"new", "listening"} THEN "shutdown"
                 ELSE srvState
  /\ UNCHANGED <<runPc, proxyCancelled, doneCh, drainExpired>>
  /\ UNCHANGED otherThanRun

\* The goroutine's case <-doneCh: it ends.
WatcherDone ==
  /\ watcherPc = "select"
  /\ doneCh
  /\ watcherPc' = "done"
  /\ UNCHANGED <<runPc, srvState, proxyCancelled, doneCh, drainExpired>>
  /\ UNCHANGED otherThanRun

\* Five seconds have passed since Shutdown was called.
DrainExpires ==
  /\ watcherPc = "draining"
  /\ ~drainExpired
  /\ drainExpired' = TRUE
  /\ UNCHANGED <<runPc, watcherPc, srvState, proxyCancelled, doneCh>>
  /\ UNCHANGED otherThanRun

\* Shutdown returns: no request is in flight, or the five seconds are over.
ShutdownReturns ==
  /\ watcherPc = "draining"
  /\ InFlight = {} \/ drainExpired
  /\ watcherPc' = "done"
  /\ UNCHANGED <<runPc, srvState, proxyCancelled, doneCh, drainExpired>>
  /\ UNCHANGED otherThanRun

\* ListenAndServe returns, since the server failed or Shutdown was called;
\* run logs, closes doneCh and returns.
RunReturns ==
  /\ runPc = "serving"
  /\ srvState \in {"shutdown", "failed"}
  /\ runPc' = "returned"
  /\ doneCh' = TRUE
  /\ UNCHANGED <<watcherPc, srvState, proxyCancelled, drainExpired>>
  /\ UNCHANGED otherThanRun

ProxyRunNext ==
  \/ RunStart
  \/ Listen
  \/ ProxyCancel
  \/ ServerFails
  \/ \E r \in Requests : Accept(r)
  \/ \E r \in Requests : SkipRequest(r)
  \/ \E r \in Requests : CountRequest(r)
  \/ \E r \in Requests : Forward(r)
  \/ WatcherShutdown
  \/ WatcherDone
  \/ DrainExpires
  \/ ShutdownReturns
  \/ RunReturns

\* ------------------------------------------------------------------------
\* More strings: splitting and lower-casing
\* ------------------------------------------------------------------------

RECURSIVE IndexOf(_, _, _)
\* The first position at or after i where token sep stands in s; 0 if none.
IndexOf(s, sep, i) ==
  IF i > Len(s) THEN 0
  ELSE IF s[i] = sep THEN i
  ELSE IndexOf(s, sep, i + 1)

RECURSIVE Split(_, _)
\* strings.Split(s, sep): the pieces of s between the separators; an empty
\* s gives one empty piece.
Split(s, sep) ==
  LET i == IndexOf(s, sep, 1)
  IN  IF i = 0 THEN <<s>>
      ELSE <<SubSeq(s, 1, i - 1)>> \o Split(SubSeq(s, i + 1, Len(s)), sep)

\* strings.SplitN(s, sep, 2): s cut at its first separator, or s alone.
SplitN2(s, sep) ==
  LET i == IndexOf(s, sep, 1)
  IN  IF i = 0 THEN <<s>>
      ELSE <<SubSeq(s, 1, i - 1), SubSeq(s, i + 1, Len(s))>>

\* strings.ToLower, on the tokens that carry capitals in the model.
LowerToken(t) ==
  CASE t = "Deployment" -> "deployment"
    [] t = "StatefulSet" -> "statefulset"
    [] OTHER -> t

ToLower(s) == [i \in 1..Len(s) |-> LowerToken(s[i])]

\* ------------------------------------------------------------------------
\* Zeroscaler (package zeroscaler): metricsCollector
\* ------------------------------------------------------------------------

\* The largest request count a scrape reports.
MaxCount == 2

\* The pods the informer may report, by name.
Pods == {"pod-1", "pod-2"}

\* The proxy IDs scrapes may report.
ProxyIDs == {"A", "B"}

\* What Scrape may return: nil, or a proxy ID with its request count.
NilScrape == [ProxyID |-> "", RequestCount |-> 0, isNil |-> TRUE]

ScrapeResults ==
  {NilScrape} \cup
  [ProxyID : ProxyIDs, RequestCount : 0..MaxCount, isNil : {FALSE}]

\* The workload has no annotations at all (Annotations == nil).
NoAnnotations == <<"<nil>">>

\* Values of the workload's osiris.dm.gg/dependencies annotation.
DependencyAnnotations ==
  { <<>>,
    <<"deployment", ":", "ns", "/", "db">>,
    <<" ", "'", "Deployment", ":", "ns", "/", "db", ",",
      "statefulset", ":", "ns", "/", "cache", "'", " ">>,
    <<"deployment", ":", "ns", "/", "db", ",", ",",
      "StatefulSet", ":", "ns", "/", "cache">>,
    <<"service", ":", "ns", "/", "x", ",", "deployment", ":", "ns", "/", "db">>,
    <<"deployment", ":", "db", ",", "statefulset", ":", "ns", "/", "cache">>,
    <<"db", ",", "deployment", ":", "ns", "/", "db">> }

CollectorInit ==
  /\ colPc = "new"
  /\ appKind \in {<<"Deployment">>, <<"statefulset">>}
  /\ appPods = {}
  /\ informer = "new"
  /\ cancelled = FALSE
  /\ tickPods = {}
  /\ pending = {}
  /\ mustNotDecide = FALSE
  /\ timerFired = FALSE
  /\ tickNil = FALSE
  /\ requestCountsByProxy = <<>>
  /\ lastTotalRequestCount = 0
  /\ dependenciesAnnotation \in DependencyAnnotations \cup {NoAnnotations}
  /\ patches = <<>>
  /\ lastGet = "none"
  /\ tickCompleted = FALSE
  /\ lastTickSkipped = FALSE
  /\ appPodsLock = "free"
  /\ tickReports = <<>>

CollectorIdle ==
  /\ colPc = "new"
  /\ appKind = <<"Deployment">>
  /\ appPods = {}
  /\ informer = "new"
  /\ cancelled = FALSE
  /\ tickPods = {}
  /\ pending = {}
  /\ mustNotDecide = FALSE
  /\ timerFired = FALSE
  /\ tickNil = FALSE
  /\ requestCountsByProxy = <<>>
  /\ lastTotalRequestCount = 0
  /\ dependenciesAnnotation = <<>>
  /\ patches = <<>>
  /\ lastGet = "none"
  /\ tickCompleted = FALSE
  /\ lastTickSkipped = FALSE
  /\ appPodsLock = "free"
  /\ tickReports = <<>>

\* m.config.appNamespace and m.config.appName
appNamespace == <<"ns">>

appName == <<"app">>

\* The tick's local variables go out of scope, and its timer is stopped.
EndOfTick ==
  /\ tickPods' = {}
  /\ pending' = {}
  /\ mustNotDecide' = FALSE
  /\ timerFired' = FALSE
  /\ tickNil' = FALSE
  /\ UNCHANGED tickReports

\* The process is alive: no panic has ended it.
Alive == colPc # "crashed"

\* run, up to its call of collectMetrics: the informer is started and
\* collectMetrics creates its ticker and waits in its select.
Run ==
  /\ colPc = "new"
  /\ colPc' = "wait"
  /\ informer' = "running"
  /\ UNCHANGED <<tickCompleted, lastTickSkipped, appPodsLock, tickReports>>
  /\ UNCHANGED <<appKind, appPods, cancelled, tickPods, pending,
                 mustNotDecide, timerFired, tickNil, requestCountsByProxy,
                 lastTotalRequestCount, dependenciesAnnotation, patches, lastGet>>
  /\ UNCHANGED otherThanCollector

\* The context is cancelled, by the parent or by stop().
Cancel ==
  /\ Alive
  /\ colPc # "new"
  /\ ~cancelled
  /\ cancelled' = TRUE
  /\ UNCHANGED <<tickCompleted, lastTickSkipped, appPodsLock, tickReports>>
  /\ UNCHANGED <<colPc, appKind, appPods, informer, tickPods, pending,
                 mustNotDecide, timerFired, tickNil, requestCountsByProxy,
                 lastTotalRequestCount, dependenciesAnnotation, patches, lastGet>>
  /\ UNCHANGED otherThanCollector

\* podsInformer.Run(ctx.Done()) returns once the context is done.
InformerStop ==
  /\ Alive
  /\ informer = "running"
  /\ cancelled
  /\ informer' = "stopped"
  /\ UNCHANGED <<tickCompleted, lastTickSkipped, appPodsLock, tickReports>>
  /\ UNCHANGED <<colPc, appKind, appPods, cancelled, tickPods, pending,
                 mustNotDecide, timerFired, tickNil, requestCountsByProxy,
                 lastTotalRequestCount, dependenciesAnnotation, patches, lastGet>>
  /\ UNCHANGED otherThanCollector

\* A Lock that does not wait for the holder of the mutex.
appPodsLockFreeAlways == TRUE

\* m.appPodsLock.Lock() returns: nobody holds the mutex.
appPodsLockFree == appPodsLock = "free"

\* The informer reports a pod added or updated: under appPodsLock, the pod
\* is put into m.appPods.
syncAppPod(pod) ==
  /\ Alive
  /\ informer = "running"
  /\ appPodsLockFree
  /\ appPods' = appPods \cup {pod}
  /\ UNCHANGED <<tickCompleted, lastTickSkipped, appPodsLock, tickReports>>
  /\ UNCHANGED <<colPc, appKind, informer, cancelled, tickPods, pending,
                 mustNotDecide, timerFired, tickNil, requestCountsByProxy,
                 lastTotalRequestCount, dependenciesAnnotation, patches, lastGet>>
  /\ UNCHANGED otherThanCollector

\* The informer reports a pod deleted: under appPodsLock, the pod is
\* deleted from m.appPods.
syncDeletedAppPod(pod) ==
  /\ Alive
  /\ informer = "running"
  /\ appPodsLockFree
  /\ appPods' = appPods \ {pod}
  /\ UNCHANGED <<tickCompleted, lastTickSkipped, appPodsLock, tickReports>>
  /\ UNCHANGED <<colPc, appKind, informer, cancelled, tickPods, pending,
                 mustNotDecide, timerFired, tickNil, requestCountsByProxy,
                 lastTotalRequestCount, dependenciesAnnotation, patches, lastGet>>
  /\ UNCHANGED otherThanCollector

\* collectMetrics, case <-ticker.C: m.appPodsLock.Lock() returns, the tick's
\* variables are declared and the 3 s timer is created.
TickStart ==
  /\ colPc = "wait"
  /\ appPodsLockFree
  /\ appPodsLock' = "tick"
  /\ colPc' = "launching"
  /\ tickPods' = {}
  /\ pending' = {}
  /\ mustNotDecide' = FALSE
  /\ timerFired' = FALSE
  /\ tickNil' = FALSE
  /\ patches' = <<>>
  /\ lastGet' = "none"
  /\ tickReports' = <<>>
  /\ UNCHANGED <<tickCompleted, lastTickSkipped>>
  /\ UNCHANGED <<appKind, appPods, informer, cancelled, requestCountsByProxy,
                 lastTotalRequestCount, dependenciesAnnotation>>
  /\ UNCHANGED otherThanCollector

\* One iteration of for _, pod := range m.appPods: scrapeWG.Add(1) and the
\* scrape goroutine of a pod that the loop has not visited is started.
Launch(pod) ==
  /\ colPc = "launching"
  /\ pod \in appPods \ tickPods
  /\ tickPods' = tickPods \cup {pod}
  /\ pending' = pending \cup {pod}
  /\ UNCHANGED <<tickCompleted, lastTickSkipped, appPodsLock, tickReports>>
  /\ UNCHANGED <<colPc, appKind, appPods, informer, cancelled, mustNotDecide,
                 timerFired, tickNil, requestCountsByProxy,
                 lastTotalRequestCount, dependenciesAnnotation, patches, lastGet>>
  /\ UNCHANGED otherThanCollector

\* The loop over m.appPods is over: m.appPodsLock.Unlock(), and the tick
\* goes on to scrapeWG.Wait().
TickUnlock ==
  /\ colPc = "launching"
  /\ appPods \ tickPods = {}
  /\ appPodsLock' = "free"
  /\ colPc' = "scraping"
  /\ UNCHANGED <<tickCompleted, lastTickSkipped, tickReports>>
  /\ UNCHANGED <<appKind, appPods, informer, cancelled, tickPods, pending,
                 mustNotDecide, timerFired, tickNil, requestCountsByProxy,
                 lastTotalRequestCount, dependenciesAnnotation, patches, lastGet>>
  /\ UNCHANGED otherThanCollector

\* An outer case <-ctx.Done() that leaves the select but not the loop.
ExitLoopBreak ==
  /\ colPc = "wait"
  /\ cancelled
  /\ UNCHANGED vars

\* collectMetrics, the outer case <-ctx.Done(): return.
ExitLoop ==
  /\ colPc = "wait"
  /\ cancelled
  /\ colPc' = "exited"
  /\ UNCHANGED <<tickCompleted, lastTickSkipped, appPodsLock, tickReports>>
  /\ UNCHANGED <<appKind, appPods, informer, cancelled, tickPods, pending,
                 mustNotDecide, timerFired, tickNil, requestCountsByProxy,
                 lastTotalRequestCount, dependenciesAnnotation, patches, lastGet>>
  /\ UNCHANGED otherThanCollector

\* A scrape goroutine whose Scrape returned nil: mustNotDecide = true.  (The
\* goroutines write the flag without a lock, but all of them write true and
\* the loop reads it only after scrapeWG.Wait().)
ScrapeNil(pod) ==
  /\ colPc \in {"launching", "scraping"}
  /\ pod \in pending
  /\ pending' = pending \ {pod}
  /\ mustNotDecide' = TRUE
  /\ tickNil' = TRUE
  /\ UNCHANGED <<tickCompleted, lastTickSkipped, appPodsLock, tickReports>>
  /\ UNCHANGED <<colPc, appKind, appPods, informer, cancelled, tickPods,
                 timerFired, requestCountsByProxy, lastTotalRequestCount,
                 dependenciesAnnotation, patches, lastGet>>
  /\ UNCHANGED otherThanCollector

\* A table that is emptied before a count is written to it.
RecordCountFresh(counts, prc) ==
  [id \in {prc.ProxyID} |-> prc.RequestCount]

\* requestCountsByProxy[prc.ProxyID] = prc.RequestCount
RecordCount(counts, prc) ==
  [id \in DOMAIN counts \cup {prc.ProxyID} |->
     IF id = prc.ProxyID THEN prc.RequestCount ELSE counts[id]]

\* requestCountsByProxy[id] as Go reads it: 0 for an ID that is not a key.
Recorded(counts, id) == IF id \in DOMAIN counts THEN counts[id] ELSE 0

\* The scrape goroutine of pod ends with the count prc: under
\* requestCountsByProxyLock, requestCountsByProxy[prc.ProxyID] is set.
Scraped(pod, prc) ==
  /\ colPc \in {"launching", "scraping"}
  /\ pod \in pending
  /\ ~prc.isNil
  /\ requestCountsByProxy' = RecordCount(requestCountsByProxy, prc)
  /\ pending' = pending \ {pod}
  /\ UNCHANGED <<tickCompleted, lastTickSkipped, appPodsLock>>
  /\ UNCHANGED <<colPc, appKind, appPods, informer, cancelled, tickPods,
                 mustNotDecide, timerFired, tickNil, lastTotalRequestCount,
                 dependenciesAnnotation, patches, lastGet>>
  /\ UNCHANGED otherThanCollector

\* A scrape goroutine whose Scrape returned a count, whatever the count.
ScrapeCount(pod) ==
  \E prc \in ScrapeResults :
    /\ Scraped(pod, prc)
    /\ UNCHANGED tickReports

\* A scrape goroutine whose Scrape returned a count, of a proxy whose
\* counter never goes down: the count is at least the one the table holds
\* for the proxy.  What the scrape returned is kept in tickReports.
ScrapeCountMonotone(pod) ==
  \E prc \in ScrapeResults :
    /\ prc.RequestCount >= Recorded(requestCountsByProxy, prc.ProxyID)
    /\ Scraped(pod, prc)
    /\ tickReports' =
         [q \in DOMAIN tickReports \cup {pod} |->
            IF q = pod
            THEN [ProxyID |-> prc.ProxyID, RequestCount |-> prc.RequestCount,
                  recorded |-> Recorded(requestCountsByProxy, prc.ProxyID)]
            ELSE tickReports[q]]

\* Three seconds have passed since the tick's timer was created.
TimerFire ==
  /\ colPc \in {"launching", "scraping"}
  /\ ~timerFired
  /\ timerFired' = TRUE
  /\ UNCHANGED <<tickCompleted, lastTickSkipped, appPodsLock, tickReports>>
  /\ UNCHANGED <<colPc, appKind, appPods, informer, cancelled, tickPods,
                 pending, mustNotDecide, tickNil, requestCountsByProxy,
                 lastTotalRequestCount, dependenciesAnnotation, patches, lastGet>>
  /\ UNCHANGED otherThanCollector

RECURSIVE SumCounts(_, _)
SumCounts(counts, ids) ==
  IF ids = {} THEN 0
  ELSE LET id == CHOOSE x \in ids : TRUE
       IN  counts[id] + SumCounts(counts, ids \ {id})

\* totalRequestCount: the uint64 sum of requestCountsByProxy.
TotalRequestCount(counts) ==
  SumCounts(counts, DOMAIN counts) % CounterModulus

\* The package-level scaleToZero: the patch it issues, if the kind is one
\* it knows.  ok is whether the API server accepts the patch.
scaleToZero(role, kind, namespace, name, ok) ==
  IF ToLower(kind) \in {<<"deployment">>, <<"statefulset">>}
  THEN <<[role |-> role, kind |-> ToLower(kind), namespace |-> namespace,
          name |-> name, ok |-> ok]>>
  ELSE <<>>

RECURSIVE ScaleDependencies(_, _, _, _)
\* metricsCollector.scaleToZero's loop over the entries of the annotation,
\* from entry i on: the patches issued, and whether the loop panicked on an
\* index out of range.  failing: the entries whose patch the API refuses.
ScaleDependencies(entries, i, log, failing) ==
  IF i > Len(entries) THEN [patches |-> log, panicked |-> FALSE]
  ELSE
    LET dependency == entries[i]
        elems == SplitN2(dependency, ":")
    IN  IF Len(dependency) = 0
        THEN ScaleDependencies(entries, i + 1, log, failing)
        ELSE IF Len(elems) < 2
        THEN [patches |-> log, panicked |-> TRUE]
        ELSE
          LET depKind == elems[1]
              elems2 == SplitN2(elems[2], "/")
          IN  IF Len(elems2) < 2
              THEN [patches |-> log, panicked |-> TRUE]
              ELSE ScaleDependencies(
                     entries, i + 1,
                     log \o scaleToZero("dep", depKind, elems2[1], elems2[2],
                                        i \notin failing),
                     failing)

\* The workload's cleaned dependencies annotation, split at the commas.
DependencyEntries ==
  Split(IF dependenciesAnnotation = NoAnnotations THEN <<>>
        ELSE zeroscalerCleanAnnotationValue(dependenciesAnnotation), ",")

\* A scaleToZero that patches the dependencies before the main workload.
collectorScaleToZeroDepsFirst(mainOk, getOk, failing) ==
  LET main == scaleToZero("main", appKind, appNamespace, appName, mainOk)
      deps == ScaleDependencies(DependencyEntries, 1, <<>>, failing)
  IN  IF ~getOk THEN [patches |-> main, panicked |-> FALSE]
      ELSE [patches |-> deps.patches \o main, panicked |-> deps.panicked]

\* metricsCollector.scaleToZero: the main workload's patch, then the Get of
\* the workload, then the patches of its dependencies.
collectorScaleToZero(mainOk, getOk, failing) ==
  LET main == scaleToZero("main", appKind, appNamespace, appName, mainOk)
  IN  IF ~getOk THEN [patches |-> main, panicked |-> FALSE]
      ELSE ScaleDependencies(DependencyEntries, 1, main, failing)

\* A decision that looks at the totals only.
ShouldScaleTotalsOnly(mnd, total, last) == total = last

\* A decision that takes a total of zero for no measurement at all.
ShouldScaleNonZero(mnd, total, last) == ~mnd /\ total = last /\ total # 0

\* The condition of collectMetrics on which it calls scaleToZero.
ShouldScale(mnd, total, last) == ~mnd /\ total = last

\* A timer case that goes back to the loop's start (continue), past the
\* assignment of lastTotalRequestCount.
DecideTimerContinue ==
  /\ colPc = "scraping"
  /\ pending = {}
  /\ timerFired
  /\ UNCHANGED lastTotalRequestCount
  /\ tickCompleted' = TRUE
  /\ lastTickSkipped' = TRUE
  /\ UNCHANGED appPodsLock
  /\ colPc' = "wait"
  /\ EndOfTick
  /\ UNCHANGED <<appKind, appPods, informer, cancelled, requestCountsByProxy,
                 dependenciesAnnotation, patches, lastGet>>
  /\ UNCHANGED otherThanCollector

\* collectMetrics after scrapeWG.Wait(), inner case <-timer.C: the tick
\* must not decide; lastTotalRequestCount is set.
DecideTimer ==
  /\ colPc = "scraping"
  /\ pending = {}
  /\ timerFired
  /\ lastTotalRequestCount' = TotalRequestCount(requestCountsByProxy)
  /\ tickCompleted' = TRUE
  /\ lastTickSkipped' = TRUE
  /\ UNCHANGED appPodsLock
  /\ colPc' = "wait"
  /\ EndOfTick
  /\ UNCHANGED <<appKind, appPods, informer, cancelled, requestCountsByProxy,
                 dependenciesAnnotation, patches, lastGet>>
  /\ UNCHANGED otherThanCollector

\* collectMetrics after scrapeWG.Wait(), inner case <-ctx.Done(): return.
DecideCancelled ==
  /\ colPc = "scraping"
  /\ pending = {}
  /\ cancelled
  /\ colPc' = "exited"
  /\ EndOfTick
  /\ UNCHANGED <<tickCompleted, lastTickSkipped, appPodsLock>>
  /\ UNCHANGED <<appKind, appPods, informer, cancelled, requestCountsByProxy,
                 lastTotalRequestCount, dependenciesAnnotation, patches,
                 lastGet>>
  /\ UNCHANGED otherThanCollector

\* collectMetrics after scrapeWG.Wait(), inner default case, the workload
\* is not found idle: lastTotalRequestCount is set.
DecideSkip ==
  /\ colPc = "scraping"
  /\ pending = {}
  /\ ~timerFired
  /\ ~cancelled
  /\ ~ShouldScale(mustNotDecide, TotalRequestCount(requestCountsByProxy),
                  lastTotalRequestCount)
  /\ lastTotalRequestCount' = TotalRequestCount(requestCountsByProxy)
  /\ tickCompleted' = TRUE
  /\ lastTickSkipped' = mustNotDecide
  /\ UNCHANGED appPodsLock
  /\ colPc' = "wait"
  /\ EndOfTick
  /\ UNCHANGED <<appKind, appPods, informer, cancelled, requestCountsByProxy,
                 dependenciesAnnotation, patches, lastGet>>
  /\ UNCHANGED otherThanCollector

\* collectMetrics after scrapeWG.Wait(), inner default case, the workload
\* is found idle: m.scaleToZero runs, then lastTotalRequestCount is set.  A
\* panic in scaleToZero ends the process.
DecideScale ==
  /\ colPc = "scraping"
  /\ pending = {}
  /\ ~timerFired
  /\ ~cancelled
  /\ ShouldScale(mustNotDecide, TotalRequestCount(requestCountsByProxy),
                 lastTotalRequestCount)
  /\ \E mainOk \in BOOLEAN, getOk \in BOOLEAN,
        failing \in SUBSET (1..Len(DependencyEntries)) :
       LET run == collectorScaleToZero(mainOk, getOk, failing)
       IN  /\ patches' = run.patches
           /\ lastGet' = IF getOk THEN "ok" ELSE "failed"
           /\ colPc' = IF run.panicked THEN "crashed" ELSE "wait"
           /\ lastTotalRequestCount' =
                IF run.panicked THEN lastTotalRequestCount
                ELSE TotalRequestCount(requestCountsByProxy)
           /\ tickCompleted' = (tickCompleted \/ ~run.panicked)
           /\ lastTickSkipped' = (lastTickSkipped /\ run.panicked)
  /\ EndOfTick
  /\ UNCHANGED appPodsLock
  /\ UNCHANGED <<appKind, appPods, informer, cancelled, requestCountsByProxy,
                 dependenciesAnnotation>>
  /\ UNCHANGED otherThanCollector

CollectorNext ==
  \/ Run
  \/ Cancel
  \/ InformerStop
  \/ \E pod \in Pods : syncAppPod(pod)
  \/ \E pod \in Pods : syncDeletedAppPod(pod)
  \/ TickStart
  \/ \E pod \in Pods : Launch(pod)
  \/ TickUnlock
  \/ ExitLoop
  \/ \E pod \in Pods : ScrapeNil(pod)
  \/ \E pod \in Pods : ScrapeCount(pod)
  \/ TimerFire
  \/ DecideTimer
  \/ DecideCancelled
  \/ DecideSkip
  \/ DecideScale

\* ------------------------------------------------------------------------
\* Activator (package activator): the host index
\* ------------------------------------------------------------------------

\* A Go map string -> value is a function on the set of its keys.
EmptyMap == <<>>

\* m[k] = v
Put(m, k, v) == [x \in DOMAIN m \cup {k} |-> IF x = k THEN v ELSE m[x]]

RECURSIVE PutAll(_, _, _)
\* m[keys[1]] = v; m[keys[2]] = v; ... in that order
PutAll(m, keys, v) ==
  IF keys = <<>> THEN m
  ELSE PutAll(Put(m, Head(keys), v), Tail(keys), v)

\* m[k] of a map of strings: the empty string when k is not a key.
AnnotationValue(annotations, k) ==
  IF k \in DOMAIN annotations THEN annotations[k] ELSE <<>>

Digits == <<"0", "1", "2", "3", "4", "5", "6", "7", "8", "9">>

RECURSIVE Itoa(_)
\* fmt.Sprintf("%d", n) for n >= 0: the decimal digits of n.
Itoa(n) ==
  IF n < 10 THEN <<Digits[n + 1]>>
  ELSE Itoa(n \div 10) \o <<Digits[(n % 10) + 1]>>

\* \d+
IsDigits(s) ==
  /\ Len(s) >= 1
  /\ \A i \in 1..Len(s) : \E d \in 1..Len(Digits) : s[i] = Digits[d]

\* ^<base>(?:-\d+)?$ on an annotation key
MatchesHostnameAnnotation(base, k) ==
  /\ Len(k) >= 1
  /\ k[1] = base
  /\ \/ Len(k) = 1
     \/ /\ Len(k) >= 3
        /\ k[2] = "-"
        /\ IsDigits(SubSeq(k, 3, Len(k)))

loadBalancerHostnameAnnotationRegex(k) ==
  MatchesHostnameAnnotation("osiris.dm.gg/loadBalancerHostname", k)

ingressHostnameAnnotationRegex(k) ==
  MatchesHostnameAnnotation("osiris.dm.gg/ingressHostname", k)

appKindDeployment == "Deployment"

appKindStatefulSet == "StatefulSet"

\* getKey(namespace, kind, name): the key of a workload in a.deployments
\* and a.statefulSets.
getKey(namespace, kind, name) == <<namespace, kind, name>>

\* fmt.Sprintf("%s:%d", host, port)
HostPort(host, port) == host \o <<":">> \o Itoa(port)

\* svcDNSNames
svcDNSNames(svc) ==
  LET short == svc.Name \o <<".">> \o svc.Namespace
  IN  << short,
         short \o <<".", "svc">>,
         short \o <<".", "svc", ".", "cluster">>,
         short \o <<".", "svc", ".", "cluster", ".", "local">> >>

\* The workload a service names, and that workload's cleaned dependencies
\* annotation: the deployment annotation wins over the statefulset one.
WorkloadOf(svc) ==
  LET depKey == <<"osiris.dm.gg/deployment">>
      stsKey == <<"osiris.dm.gg/statefulset">>
      Deps(objects, kind, name) ==
        LET key == getKey(svc.Namespace, kind, name)
        IN  IF key \in DOMAIN objects /\ objects[key].hasAnnotations
            THEN cleanAnnotationValue(
                   AnnotationValue(objects[key].Annotations,
                                   <<"osiris.dm.gg/dependencies">>))
            ELSE <<>>
  IN  IF depKey \in DOMAIN svc.Annotations
      THEN LET name == cleanAnnotationValue(svc.Annotations[depKey])
           IN  [name |-> name, kind |-> appKindDeployment,
                dependenciesAnnotationValue |->
                  Deps(deployments, appKindDeployment, name)]
      ELSE IF stsKey \in DOMAIN svc.Annotations
      THEN LET name == cleanAnnotationValue(svc.Annotations[stsKey])
           IN  [name |-> name, kind |-> appKindStatefulSet,
                dependenciesAnnotationValue |->
                  Deps(statefulSets, appKindStatefulSet, name)]
      ELSE [name |-> <<>>, kind |-> "", dependenciesAnnotationValue |-> <<>>]

RECURSIVE ParseDependencies(_, _, _)
\* updateIndex's loop over the entries of the dependencies annotation, from
\* entry i on: the dependencies collected, and whether the loop panicked on
\* an index out of range.
ParseDependencies(entries, i, dependencies) ==
  IF i > Len(entries)
  THEN [dependencies |-> dependencies, panicked |-> FALSE]
  ELSE
    LET dependency == entries[i]
        elems == SplitN2(dependency, ":")
        depKind == ToLower(elems[1])
    IN  IF Len(dependency) = 0
        THEN ParseDependencies(entries, i + 1, dependencies)
        ELSE IF depKind \notin {<<"deployment">>, <<"statefulset">>}
        THEN ParseDependencies(entries, i + 1, dependencies)
        ELSE IF Len(elems) < 2
        THEN [dependencies |-> dependencies, panicked |-> TRUE]
        ELSE
          LET elems2 == SplitN2(elems[2], "/")
          IN  IF Len(elems2) < 2
              THEN [dependencies |-> dependencies, panicked |-> TRUE]
              ELSE ParseDependencies(
                     entries, i + 1,
                     Append(dependencies,
                            [Namespace |-> elems2[1],
                             Name |-> elems2[2],
                             Kind |-> IF depKind = <<"deployment">>
                                      THEN appKindDeployment
                                      ELSE appKindStatefulSet,
                             ServiceName |-> elems2[2]]))

RECURSIVE InferDefaultPortFirstMatch(_, _, _)
\* A loop that takes the first port that is named "http" or is port 80.
InferDefaultPortFirstMatch(ports, i, foundPort80) ==
  IF i > Len(ports) THEN <<>>
  ELSE IF ports[i].Name = <<"http">> THEN Itoa(ports[i].Port)
  ELSE IF ports[i].Port = 80 THEN <<"8", "0">>
  ELSE InferDefaultPortFirstMatch(ports, i + 1, foundPort80)

RECURSIVE InferDefaultPort(_, _, _)
\* The loop that infers the default port of a service with several ports:
\* the first port named "http", else 80 if the service exposes it.
InferDefaultPort(ports, i, foundPort80) ==
  IF i > Len(ports) THEN (IF foundPort80 THEN <<"8", "0">> ELSE <<>>)
  ELSE IF ports[i].Name = <<"http">> THEN Itoa(ports[i].Port)
  ELSE InferDefaultPort(ports, i + 1, foundPort80 \/ ports[i].Port = 80)

\* ingressDefaultPort: the annotation's value as written, else inferred.
IngressDefaultPort(svc) ==
  IF <<"osiris.dm.gg/ingressDefaultPort">> \in DOMAIN svc.Annotations
  THEN svc.Annotations[<<"osiris.dm.gg/ingressDefaultPort">>]
  ELSE IF Len(svc.Ports) = 1 THEN Itoa(svc.Ports[1].Port)
  ELSE InferDefaultPort(svc.Ports, 1, FALSE)

\* The orders in which a range loop may visit the keys in S.
Orders(S) ==
  {f \in [1..Cardinality(S) -> S] :
     \A i, j \in 1..Cardinality(S) : i # j => f[i] # f[j]}

\* The keys of svc.Annotations that each regex matches.
LoadBalancerHostnameKeys(svc) ==
  {k \in DOMAIN svc.Annotations : loadBalancerHostnameAnnotationRegex(k)}

IngressHostnameKeys(svc) ==
  {k \in DOMAIN svc.Annotations : ingressHostnameAnnotationRegex(k)}

\* A loop over the matching annotations that stops at the first of them.
HostnamesFirstOnly(svc, order) ==
  IF order = <<>> THEN <<>>
  ELSE <<cleanAnnotationValue(svc.Annotations[order[1]])>>

\* for k, v := range svc.Annotations { if regex.MatchString(k) { ... } }:
\* the cleaned hostnames, in the order the loop meets the matching keys.
Hostnames(svc, order) ==
  [i \in 1..Len(order) |-> cleanAnnotationValue(svc.Annotations[order[i]])]

\* The load balancer IPs of the service that are not empty.
LoadBalancerIPs(svc) ==
  SelectSeq(svc.LoadBalancerIngress, LAMBDA ip : ip # <<>>)

\* url.Parse("http://<clusterIP>:<port>"): fails on a host with a blank.
ParseTargetURL(clusterIP, port) ==
  [ok |-> \A i \in 1..Len(clusterIP) : clusterIP[i] \notin Space,
   url |-> [Host |-> clusterIP, Port |-> port]]

\* The choices a port's iteration makes: the order of each range loop over
\* svc.Annotations and over a.nodeAddresses that it runs.
PortOrders(svc, port) ==
  [lb80 : IF port.Port = 80 THEN Orders(LoadBalancerHostnameKeys(svc))
          ELSE {<<>>},
   ing  : IF Itoa(port.Port) = IngressDefaultPort(svc)
          THEN Orders(IngressHostnameKeys(svc))
          ELSE {<<>>},
   node : IF port.NodePort # 0 THEN Orders(nodeAddresses) ELSE {<<>>},
   lb   : Orders(LoadBalancerHostnameKeys(svc))]

RECURSIVE ServiceOrders(_, _)
\* The choices of the iterations of the ports of svc from port i on.
ServiceOrders(svc, i) ==
  IF i > Len(svc.Ports) THEN {<<>>}
  ELSE {<<o>> \o rest : o \in PortOrders(svc, svc.Ports[i]),
                        rest \in ServiceOrders(svc, i + 1)}

\* An iteration that writes the hosts without port suffix for every port.
PortKeysUnsuffixedAlways(svc, port, ingressDefaultPort, ord) ==
  LET WithPort(hosts, p) == [i \in 1..Len(hosts) |-> HostPort(hosts[i], p)]
  IN  svcDNSNames(svc) \o <<svc.ClusterIP>> \o LoadBalancerIPs(svc)
      \o Hostnames(svc, ord.lb)
      \o (IF Itoa(port.Port) = ingressDefaultPort
          THEN Hostnames(svc, ord.ing)
          ELSE <<>>)
      \o WithPort(svcDNSNames(svc), port.Port)
      \o <<HostPort(svc.ClusterIP, port.Port)>>
      \o WithPort(LoadBalancerIPs(svc), port.Port)
      \o (IF port.NodePort # 0 THEN WithPort(ord.node, port.NodePort)
          ELSE <<>>)
      \o WithPort(Hostnames(svc, ord.lb), port.Port)

\* The keys one port's iteration writes, in the order it writes them.
PortKeys(svc, port, ingressDefaultPort, ord) ==
  LET WithPort(hosts, p) == [i \in 1..Len(hosts) |-> HostPort(hosts[i], p)]
  IN  (IF port.Port = 80
       THEN svcDNSNames(svc) \o <<svc.ClusterIP>> \o LoadBalancerIPs(svc)
            \o Hostnames(svc, ord.lb80)
       ELSE <<>>)
      \o (IF Itoa(port.Port) = ingressDefaultPort
          THEN Hostnames(svc, ord.ing)
          ELSE <<>>)
      \o WithPort(svcDNSNames(svc), port.Port)
      \o <<HostPort(svc.ClusterIP, port.Port)>>
      \o WithPort(LoadBalancerIPs(svc), port.Port)
      \o (IF port.NodePort # 0 THEN WithPort(ord.node, port.NodePort)
          ELSE <<>>)
      \o WithPort(Hostnames(svc, ord.lb), port.Port)

\* A port's app that relays to the node port instead of the service port.
PortAppNodePort(svc, workload, dependencies, port) ==
  [Namespace    |-> svc.Namespace,
   ServiceName  |-> svc.Name,
   Name         |-> workload.name,
   Kind         |-> workload.kind,
   Dependencies |-> dependencies,
   TargetURL    |-> ParseTargetURL(svc.ClusterIP,
                                   IF port.NodePort # 0 THEN port.NodePort
                                   ELSE port.Port).url]

\* The app of one port of a service.
PortApp(svc, workload, dependencies, port) ==
  [Namespace    |-> svc.Namespace,
   ServiceName  |-> svc.Name,
   Name         |-> workload.name,
   Kind         |-> workload.kind,
   Dependencies |-> dependencies,
   TargetURL    |-> ParseTargetURL(svc.ClusterIP, port.Port).url]

RECURSIVE IndexPorts(_, _, _, _, _, _)
\* for _, port := range svc.Spec.Ports, from port i on.
IndexPorts(m, svc, i, workload, dependencies, ords) ==
  IF i > Len(svc.Ports) THEN m
  ELSE
    LET port == svc.Ports[i]
    IN  IF ~ParseTargetURL(svc.ClusterIP, port.Port).ok
        THEN IndexPorts(m, svc, i + 1, workload, dependencies, ords)
        ELSE IndexPorts(
               PutAll(m,
                      PortKeys(svc, port, IngressDefaultPort(svc), ords[i]),
                      PortApp(svc, workload, dependencies, port)),
               svc, i + 1, workload, dependencies, ords)

\* One iteration of updateIndex's loop over a.services: the map after it,
\* and whether it panicked.
IndexService(m, svc, ords) ==
  LET workload == WorkloadOf(svc)
      parsed == ParseDependencies(
                  Split(workload.dependenciesAnnotationValue, ","), 1, <<>>)
  IN  IF Len(workload.name) = 0
      THEN [appsByHost |-> m, panicked |-> FALSE]
      ELSE IF parsed.panicked
      THEN [appsByHost |-> m, panicked |-> TRUE]
      ELSE [appsByHost |->
              IndexPorts(m, svc, 1, workload, parsed.dependencies, ords),
            panicked |-> FALSE]

\* The runs of updateIndex a behaviour may hold.
MaxRuns == 2

\* A service port.
Port(name, port, nodePort) ==
  [Name |-> name, Port |-> port, NodePort |-> nodePort]

\* The port lists of the services.
PortChoices ==
  { <<Port(<<>>, 80, 0)>>,
    <<Port(<<>>, 8080, 30080)>>,
    <<Port(<<"web">>, 80, 30080), Port(<<"http">>, 8080, 0)>>,
    <<Port(<<"admin">>, 8080, 0), Port(<<"web">>, 80, 0)>>,
    <<Port(<<>>, 8080, 0), Port(<<>>, 9090, 30090)>> }

\* The annotations of service a.
AnnotationChoices ==
  { <<"osiris.dm.gg/deployment">> :> <<"app">>,
    (<<"osiris.dm.gg/deployment">> :> <<" ", "'", "app", "'">>)
      @@ (<<"osiris.dm.gg/statefulset">> :> <<"db">>)
      @@ (<<"osiris.dm.gg/ingressHostname">> :> <<"example.com">>)
      @@ (<<"osiris.dm.gg/ingressHostname", "-", "1">>
            :> <<"'", "www.example.com", "'">>)
      @@ (<<"osiris.dm.gg/ingressDefaultPort">> :> <<"8", "0", "8", "0">>),
    (<<"osiris.dm.gg/statefulset">> :> <<"db">>)
      @@ (<<"osiris.dm.gg/loadBalancerHostname">> :> <<"lb.example.com">>)
      @@ (<<"osiris.dm.gg/loadBalancerHostname", "-", "1", "2">>
            :> <<"example.com">>)
      @@ (<<"osiris.dm.gg/ingressHostname">> :> <<"example.com">>),
    (<<"osiris.dm.gg/deployment">> :> <<"app">>)
      @@ (<<"osiris.dm.gg/ingressHostname">>
            :> <<"example.com", ":", "4", "4", "3">>)
      @@ (<<"osiris.dm.gg/ingressHostname", "-", "x">>
            :> <<"other.example.com">>)
      @@ (<<"osiris.dm.gg/loadBalancerHostname", "-">>
            :> <<"other.example.com">>),
    (<<"osiris.dm.gg/deployment">> :> <<"app">>)
      @@ (<<"osiris.dm.gg/ingressHostname">> :> <<"example.com">>)
      @@ (<<"osiris.dm.gg/ingressDefaultPort">>
            :> <<"'", "8", "0", "8", "0", "'">>),
    (<<"osiris.dm.gg/deployment">> :> <<"'", "'">>)
      @@ (<<"osiris.dm.gg/ingressHostname">> :> <<"example.com">>),
    <<"osiris.dm.gg/ingressHostname">> :> <<"example.com">> }

\* The load balancer ingress points of service a, by their IP (empty for
\* an ingress point that has a hostname only).
LoadBalancerChoices == { <<>>, << <<>>, <<"1.2.3.4">> >> }

\* Service a of namespace ns.
ServiceA ==
  [Namespace : {<<"ns">>}, Name : {<<"a">>}, Annotations : AnnotationChoices,
   Ports : PortChoices, ClusterIP : {<<"10.0.0.1">>},
   LoadBalancerIngress : LoadBalancerChoices]

\* Service b of namespace ns, which claims hosts that a may claim as well.
ServiceB ==
  { [Namespace |-> <<"ns">>, Name |-> <<"b">>,
     Annotations |->
       (<<"osiris.dm.gg/deployment">> :> <<"app2">>)
         @@ (<<"osiris.dm.gg/ingressHostname">> :> <<"example.com">>),
     Ports |-> <<Port(<<>>, 80, 0)>>,
     ClusterIP |-> <<"10.0.0.2">>,
     LoadBalancerIngress |-> <<>>],
    [Namespace |-> <<"ns">>, Name |-> <<"b">>,
     Annotations |->
       (<<"osiris.dm.gg/statefulset">> :> <<"db">>)
         @@ (<<"osiris.dm.gg/loadBalancerHostname">> :> <<"a", ".", "ns">>),
     Ports |-> <<Port(<<"http">>, 8080, 30080)>>,
     ClusterIP |-> <<"10.0.0.2">>,
     LoadBalancerIngress |-> << <<"1.2.3.4">> >>] }

\* a.services, in the order updateIndex visits them: sorted by namespace
\* and name, as the spec has the caller supply them.
SortedServices ==
  {<<>>} \cup {<<a>> : a \in ServiceA} \cup {<<b>> : b \in ServiceB}
  \cup {<<a, b>> : a \in ServiceA, b \in ServiceB}

\* A workload object, by its annotations.
Workload(annotations) ==
  IF annotations = NoAnnotations
  THEN [hasAnnotations |-> FALSE, Annotations |-> EmptyMap]
  ELSE [hasAnnotations |-> TRUE,
        Annotations |-> <<"osiris.dm.gg/dependencies">> :> annotations]

\* Values of the osiris.dm.gg/dependencies annotation of deployment ns/app:
\* two well-formed entries in quotes, an unknown kind, an entry without
\* '/', and an entry without ':'.
IndexDependencyAnnotations ==
  { <<" ", "'", "Deployment", ":", "ns", "/", "db", ",",
      "statefulset", ":", "ns", "/", "cache", "'", " ">>,
    <<"service", ":", "ns", "/", "x", ",", "deployment", ":", "ns", "/", "db">>,
    <<"deployment", ":", "db", ",", "statefulset", ":", "ns", "/", "cache">>,
    <<"db", ",", "deployment", ":", "ns", "/", "db">> }

\* a.deployments: empty, or deployment ns/app with one of the annotations.
DeploymentChoices ==
  {EmptyMap} \cup
  { getKey(<<"ns">>, appKindDeployment, <<"app">>) :> Workload(d) :
      d \in IndexDependencyAnnotations \cup {NoAnnotations} }

\* a.statefulSets: statefulset ns/db, which has annotations but no
\* dependencies among them.
StatefulSetChoices ==
  { getKey(<<"ns">>, appKindStatefulSet, <<"db">>) :>
      [hasAnnotations |-> TRUE, Annotations |-> EmptyMap] }

NodeAddressChoices == { {}, {<<"node-1">>, <<"192.168.0.7">>} }

\* A reader that has not looked up anything yet.
NotRead == [read |-> FALSE, map |-> EmptyMap]

IndexInit ==
  /\ services \in SortedServices
  /\ deployments \in DeploymentChoices
  /\ statefulSets \in StatefulSetChoices
  /\ nodeAddresses \in NodeAddressChoices
  /\ appsByHost = EmptyMap
  /\ idxPc = "idle"
  /\ building = EmptyMap
  /\ nextSvc = 1
  /\ runs = 0
  /\ prevIndex = EmptyMap
  /\ observed = NotRead

IndexIdle ==
  /\ services = <<>>
  /\ deployments = EmptyMap
  /\ statefulSets = EmptyMap
  /\ nodeAddresses = {}
  /\ appsByHost = EmptyMap
  /\ idxPc = "idle"
  /\ building = EmptyMap
  /\ nextSvc = 1
  /\ runs = 0
  /\ prevIndex = EmptyMap
  /\ observed = NotRead

\* An updateIndex that fills a.appsByHost in place.
IndexSeenWhileBuildingInPlace(published, local) == local

\* What a.appsByHost holds while updateIndex is filling its local map.
IndexSeenWhileBuilding(published, local) == published

\* updateIndex is called and makes its local map.
BeginUpdate ==
  /\ idxPc = "idle"
  /\ runs < MaxRuns
  /\ idxPc' = "building"
  /\ building' = EmptyMap
  /\ nextSvc' = 1
  /\ appsByHost' = IndexSeenWhileBuilding(appsByHost, building')
  /\ UNCHANGED <<services, deployments, statefulSets, nodeAddresses, runs,
                 prevIndex, observed>>
  /\ UNCHANGED otherThanIndex

\* One iteration of the loop over a.services.
IndexNextService ==
  /\ idxPc = "building"
  /\ nextSvc <= Len(services)
  /\ LET svc == services[nextSvc]
     IN  \E ords \in ServiceOrders(svc, 1) :
           LET r == IndexService(building, svc, ords)
           IN  /\ building' = r.appsByHost
               /\ idxPc' = IF r.panicked THEN "crashed" ELSE "building"
               /\ nextSvc' = IF r.panicked THEN nextSvc ELSE nextSvc + 1
  /\ appsByHost' = IndexSeenWhileBuilding(appsByHost, building')
  /\ UNCHANGED <<services, deployments, statefulSets, nodeAddresses, runs,
                 prevIndex, observed>>
  /\ UNCHANGED otherThanIndex

\* a.appsByHost = appsByHost
Publish ==
  /\ idxPc = "building"
  /\ nextSvc > Len(services)
  /\ appsByHost' = building
  /\ prevIndex' = appsByHost
  /\ runs' = runs + 1
  /\ idxPc' = "idle"
  /\ UNCHANGED <<services, deployments, statefulSets, nodeAddresses,
                 building, nextSvc, observed>>
  /\ UNCHANGED otherThanIndex

\* A request handler reads a.appsByHost to look up a host.
Lookup ==
  /\ idxPc # "crashed"
  /\ observed' = [read |-> TRUE, map |-> appsByHost]
  /\ UNCHANGED <<services, deployments, statefulSets, nodeAddresses,
                 appsByHost, idxPc, building, nextSvc, runs, prevIndex>>
  /\ UNCHANGED otherThanIndex

IndexNext ==
  \/ BeginUpdate
  \/ IndexNextService
  \/ Publish
  \/ Lookup

\* ------------------------------------------------------------------------
\* Activator (package activator): activation records
\* ------------------------------------------------------------------------
\* The request handler and the activation task are modelled after their
\* description: the handler obtains the record of the target app under the
\* mutex of the record map, creating it and starting its task when there is
\* none, and waits on it; the task activates the dependencies, patches the
\* workload, polls for a ready endpoint and broadcasts Ready or Failed.

\* Cold-start requests handled concurrently.
MaxActRequests == 2

ActRequests == 1..MaxActRequests

\* Activation records created in a behaviour.
MaxRecords == 3

\* The (namespace, kind, name) keys the index resolves hosts to.
KeyWeb == <<"ns", "Deployment", "web">>

KeyDb == <<"ns", "StatefulSet", "db">>

ActKeys == {KeyWeb, KeyDb}

\* The declared dependencies of the workloads: web depends on db.
ActDependencies(k) == IF k = KeyWeb THEN {KeyDb} ELSE {}

NoKey == <<>>

ActivationInit ==
  /\ actRecords = <<>>
  /\ recordByKey = EmptyMap
  /\ actReq = [r \in ActRequests |-> [pc |-> "idle", key |-> NoKey, rec |-> 0]]

ActivationIdle ==
  /\ actRecords = <<>>
  /\ recordByKey = EmptyMap
  /\ actReq = [r \in ActRequests |-> [pc |-> "idle", key |-> NoKey, rec |-> 0]]

\* A lookup in the record map that never finds a record.
HasRecordNever(k) == FALSE

\* The record map has a record for key k.
HasRecord(k) == k \in DOMAIN recordByKey

\* A new record, in Pending, whose task has not taken a step.
NewRecord(k) ==
  [key |-> k, state |-> "Pending", pc |-> "start", patched |-> 0,
   joined |-> {}, live |-> TRUE]

\* Obtaining the record of key k, under the mutex: the record of k that the
\* caller waits on, the records and the record map afterwards.
ObtainedRecord(recs, byKey, k) ==
  IF HasRecord(k) THEN byKey[k] ELSE Len(recs) + 1

RecordsAfterObtain(recs, k) ==
  IF HasRecord(k) THEN recs ELSE Append(recs, NewRecord(k))

MapAfterObtain(recs, byKey, k) ==
  IF HasRecord(k) THEN byKey ELSE Put(byKey, k, Len(recs) + 1)

\* Another record can be created within the bound of the model.
CanObtain(k) == HasRecord(k) \/ Len(actRecords) < MaxRecords

\* The handler's step 2, a miss: the host is not in the index, 404.
NotFound(r) ==
  /\ actReq[r].pc = "idle"
  /\ actReq' = [actReq EXCEPT ![r].pc = "notFound"]
  /\ UNCHANGED <<actRecords, recordByKey>>
  /\ UNCHANGED otherThanActivation

\* The handler's steps 2 and 3: the host resolves to the app of key k, and
\* the handler creates the record of k or joins the one there is.
Obtain(r, k) ==
  /\ actReq[r].pc = "idle"
  /\ CanObtain(k)
  /\ actReq' = [actReq EXCEPT
       ![r] = [pc |-> "waiting", key |-> k,
               rec |-> ObtainedRecord(actRecords, recordByKey, k)]]
  /\ actRecords' = RecordsAfterObtain(actRecords, k)
  /\ recordByKey' = MapAfterObtain(actRecords, recordByKey, k)
  /\ UNCHANGED otherThanActivation

\* The handler's step 4, on Ready: the request is forwarded.
ActForward(r) ==
  /\ actReq[r].pc = "waiting"
  /\ actRecords[actReq[r].rec].state = "Ready"
  /\ actReq' = [actReq EXCEPT ![r].pc = "forwarded"]
  /\ UNCHANGED <<actRecords, recordByKey>>
  /\ UNCHANGED otherThanActivation

\* The handler's step 4, on Failed or after activationTimeout: 503.
Unavailable(r) ==
  /\ actReq[r].pc = "waiting"
  /\ actRecords[actReq[r].rec].state # "Ready"
  /\ actReq' = [actReq EXCEPT ![r].pc = "unavailable"]
  /\ UNCHANGED <<actRecords, recordByKey>>
  /\ UNCHANGED otherThanActivation

\* The task's step 1: the record goes to Activating.
TaskActivating(i) ==
  /\ actRecords[i].pc = "start"
  /\ actRecords' = [actRecords EXCEPT ![i].state = "Activating",
                                      ![i].pc = "deps"]
  /\ UNCHANGED <<recordByKey, actReq>>
  /\ UNCHANGED otherThanActivation

\* The task's step 2, for a workload without dependencies.
TaskNoDependencies(i) ==
  /\ actRecords[i].pc = "deps"
  /\ ActDependencies(actRecords[i].key) = {}
  /\ actRecords' = [actRecords EXCEPT ![i].pc = "patch"]
  /\ UNCHANGED <<recordByKey, actReq>>
  /\ UNCHANGED otherThanActivation

\* The task's step 2: the dependency d is activated as a request for it
\* would be, and the task waits on its record.
TaskDependencies(i, d) ==
  /\ actRecords[i].pc = "deps"
  /\ ActDependencies(actRecords[i].key) = {d}
  /\ CanObtain(d)
  /\ actRecords' =
       [RecordsAfterObtain(actRecords, d) EXCEPT
          ![i].pc = "waitDeps",
          ![i].joined = {ObtainedRecord(actRecords, recordByKey, d)}]
  /\ recordByKey' = MapAfterObtain(actRecords, recordByKey, d)
  /\ UNCHANGED actReq
  /\ UNCHANGED otherThanActivation

\* The task's step 2: all dependencies are Ready, the task proceeds.
TaskDependenciesReady(i) ==
  /\ actRecords[i].pc = "waitDeps"
  /\ \A j \in actRecords[i].joined : actRecords[j].state = "Ready"
  /\ actRecords' = [actRecords EXCEPT ![i].pc = "patch"]
  /\ UNCHANGED <<recordByKey, actReq>>
  /\ UNCHANGED otherThanActivation

\* The task's step 2: a dependency failed, which fails the record.
TaskDependencyFailed(i) ==
  /\ actRecords[i].pc = "waitDeps"
  /\ \E j \in actRecords[i].joined : actRecords[j].state = "Failed"
  /\ actRecords' = [actRecords EXCEPT ![i].state = "Failed", ![i].pc = "end"]
  /\ UNCHANGED <<recordByKey, actReq>>
  /\ UNCHANGED otherThanActivation

\* The task's step 3: the replicas patch is issued; a patch that fails
\* fails the record.
TaskPatch(i, ok) ==
  /\ actRecords[i].pc = "patch"
  /\ actRecords' =
       [actRecords EXCEPT
          ![i].patched = @ + 1,
          ![i].state = IF ok THEN @ ELSE "Failed",
          ![i].pc = IF ok THEN "poll" ELSE "end"]
  /\ UNCHANGED <<recordByKey, actReq>>
  /\ UNCHANGED otherThanActivation

\* The task's steps 4 and 5: an endpoint is ready, the record goes to Ready.
TaskReady(i) ==
  /\ actRecords[i].pc = "poll"
  /\ actRecords' = [actRecords EXCEPT ![i].state = "Ready", ![i].pc = "end"]
  /\ UNCHANGED <<recordByKey, actReq>>
  /\ UNCHANGED otherThanActivation

\* The task at a suspension point: the deadline elapsed or the context was
\* cancelled, and the record goes to Failed.
TaskDeadline(i) ==
  /\ actRecords[i].pc \in {"waitDeps", "poll"}
  /\ actRecords' = [actRecords EXCEPT ![i].state = "Failed", ![i].pc = "end"]
  /\ UNCHANGED <<recordByKey, actReq>>
  /\ UNCHANGED otherThanActivation

\* Somebody still waits on record i: a request, or a task that joined it.
HasWaiters(i) ==
  \/ \E r \in ActRequests : actReq[r].pc = "waiting" /\ actReq[r].rec = i
  \/ \E j \in DOMAIN actRecords :
       actRecords[j].pc = "waitDeps" /\ i \in actRecords[j].joined

\* The record map without the keys that map to record i.
WithoutRecord(byKey, i) ==
  [k \in {x \in DOMAIN byKey : byKey[x] # i} |-> byKey[k]]

\* The task's step 6: a Ready record is evicted when its short retention is
\* over.
Evict(i) ==
  /\ actRecords[i].live
  /\ actRecords[i].state = "Ready"
  /\ actRecords' = [actRecords EXCEPT ![i].live = FALSE]
  /\ recordByKey' = WithoutRecord(recordByKey, i)
  /\ UNCHANGED actReq
  /\ UNCHANGED otherThanActivation

\* A Failed record is deleted once the failure has reached its waiters.
DeleteFailed(i) ==
  /\ actRecords[i].live
  /\ actRecords[i].state = "Failed"
  /\ ~HasWaiters(i)
  /\ actRecords' = [actRecords EXCEPT ![i].live = FALSE]
  /\ recordByKey' = WithoutRecord(recordByKey, i)
  /\ UNCHANGED actReq
  /\ UNCHANGED otherThanActivation

ActivationNext ==
  \/ \E r \in ActRequests : NotFound(r)
  \/ \E r \in ActRequests, k \in ActKeys : Obtain(r, k)
  \/ \E r \in ActRequests : ActForward(r)
  \/ \E r \in ActRequests : Unavailable(r)
  \/ \E i \in DOMAIN actRecords : TaskActivating(i)
  \/ \E i \in DOMAIN actRecords : TaskNoDependencies(i)
  \/ \E i \in DOMAIN actRecords, d \in ActKeys : TaskDependencies(i, d)
  \/ \E i \in DOMAIN actRecords : TaskDependenciesReady(i)
  \/ \E i \in DOMAIN actRecords : TaskDependencyFailed(i)
  \/ \E i \in DOMAIN actRecords, ok \in BOOLEAN : TaskPatch(i, ok)
  \/ \E i \in DOMAIN actRecords : TaskReady(i)
  \/ \E i \in DOMAIN actRecords : TaskDeadline(i)
  \/ \E i \in DOMAIN actRecords : Evict(i)
  \/ \E i \in DOMAIN actRecords : DeleteFailed(i)

\* ------------------------------------------------------------------------
\* Specifications
\* ------------------------------------------------------------------------

CleanSpecInit ==
  /\ CleanInit /\ ProxyIdle /\ CollectorIdle /\ IndexIdle /\ ProxyRunIdle
  /\ ActivationIdle

CleanNext == CleanFirst \/ CleanSecond

\* cleanAnnotationValue applied to every raw value, once and twice.
SpecClean == CleanSpecInit /\ [][CleanNext]_vars

ProxySpecInit ==
  /\ ProxyInit /\ CleanIdle /\ CollectorIdle /\ IndexIdle /\ ProxyRunIdle
  /\ ActivationIdle

\* The proxy sidecar serving concurrent requests.
SpecProxy == ProxySpecInit /\ [][ProxyNext]_vars

CollectorSpecInit ==
  /\ CollectorInit /\ CleanIdle /\ ProxyIdle /\ IndexIdle /\ ProxyRunIdle
  /\ ActivationIdle

ProxyRunSpecInit ==
  /\ ProxyRunInit /\ CleanIdle /\ ProxyIdle /\ CollectorIdle /\ IndexIdle
  /\ ActivationIdle

\* One run of a proxy, its server, its requests and its context.
SpecProxyRun == ProxyRunSpecInit /\ [][ProxyRunNext]_vars

\* One metrics collector, its informer, its scrapes and the API server.
SpecCollector == CollectorSpecInit /\ [][CollectorNext]_vars

\* What the scheduling of the collector guarantees: a select that finds
\* ctx.Done() ready again and again takes that case in the end, the
\* informer and the loop's goroutine keep running, and every scrape in
\* flight returns.
CollectorFairness ==
  /\ SF_vars(ExitLoop)
  /\ WF_vars(InformerStop)
  /\ WF_vars(\/ \E pod \in Pods : Launch(pod) \/ ScrapeNil(pod)
                                  \/ ScrapeCount(pod)
             \/ TickUnlock
             \/ DecideTimer \/ DecideCancelled \/ DecideSkip \/ DecideScale)

\* A collector of deployment ns/app, whose dependencies annotation is well
\* formed or has an entry without '/'.
CollectorFairInit ==
  /\ CollectorSpecInit
  /\ appKind = <<"Deployment">>
  /\ dependenciesAnnotation \in
       { <<"deployment", ":", "ns", "/", "db">>,
         <<"deployment", ":", "db", ",", "statefulset", ":", "ns", "/", "cache">> }

\* The collector under that scheduling.
SpecCollectorFair ==
  CollectorFairInit /\ [][CollectorNext]_vars /\ CollectorFairness

\* A collector of deployment ns/app with one dependency.
CollectorMonotoneInit ==
  /\ CollectorSpecInit
  /\ appKind = <<"Deployment">>
  /\ dependenciesAnnotation = <<"deployment", ":", "ns", "/", "db">>

CollectorMonotoneNext ==
  \/ Run
  \/ Cancel
  \/ InformerStop
  \/ \E pod \in Pods : syncAppPod(pod)
  \/ \E pod \in Pods : syncDeletedAppPod(pod)
  \/ TickStart
  \/ \E pod \in Pods : Launch(pod)
  \/ TickUnlock
  \/ ExitLoop
  \/ \E pod \in Pods : ScrapeNil(pod)
  \/ \E pod \in Pods : ScrapeCountMonotone(pod)
  \/ TimerFire
  \/ DecideTimer
  \/ DecideCancelled
  \/ DecideSkip
  \/ DecideScale

\* The collector scraping proxies whose counters never go down.
SpecCollectorMonotone ==
  CollectorMonotoneInit /\ [][CollectorMonotoneNext]_vars

IndexSpecInit ==
  /\ IndexInit /\ CleanIdle /\ ProxyIdle /\ CollectorIdle /\ ProxyRunIdle
  /\ ActivationIdle

\* Runs of updateIndex over fixed services, workloads and node addresses,
\* with a reader of the published index.
SpecIndex == IndexSpecInit /\ [][IndexNext]_vars

ActivationSpecInit ==
  /\ ActivationInit /\ CleanIdle /\ ProxyIdle /\ CollectorIdle /\ IndexIdle
  /\ ProxyRunIdle

\* Bursts of cold-start requests at the activator, and the activation tasks
\* they start.
SpecActivation == ActivationSpecInit /\ [][ActivationNext]_vars

\* ------------------------------------------------------------------------
\* Claims
\* ------------------------------------------------------------------------

\* C1: a scale-to-zero patch is issued on a tick only if no scrape of the
\* tick returned nil, the tick's timer had not fired when the decision was
\* taken, and the tick's total equals lastTotalRequestCount.
C1_PatchOnlyWhenIdle ==
  [][(patches = <<>> /\ patches' # <<>>) =>
        /\ colPc = "scraping"
        /\ pending = {}
        /\ ~tickNil
        /\ ~timerFired
        /\ TotalRequestCount(requestCountsByProxy) = lastTotalRequestCount]_vars

\* A tick that scraped a pod has issued the patch of the main workload.
C1_Witness ==
  /\ patches # <<>>
  /\ requestCountsByProxy # <<>>
  /\ appPods # {}

\* C5: in every run of scaleToZero, the patch of the main workload is
\* issued before any patch of a dependency, whether it succeeds or fails.
C5_MainBeforeDependencies ==
  \A i \in 1..Len(patches) :
     patches[i].role = "dep" => \E j \in 1..(i - 1) : patches[j].role = "main"

\* The main workload's patch failed and a dependency was patched after it.
C5_Witness ==
  /\ Len(patches) >= 2
  /\ patches[1].role = "main" /\ ~patches[1].ok
  /\ patches[2].role = "dep"

\* An entry of the form <kind>:<namespace>/<name>, kind deployment or
\* statefulset in any case.
WellFormedEntry(e) ==
  LET elems == SplitN2(e, ":")
  IN  /\ Len(elems) = 2
      /\ ToLower(elems[1]) \in {<<"deployment">>, <<"statefulset">>}
      /\ Len(SplitN2(elems[2], "/")) = 2

\* The dependencies the workload's annotation declares.
DeclaredDependencies ==
  { [kind |-> ToLower(SplitN2(DependencyEntries[i], ":")[1]),
     namespace |-> SplitN2(SplitN2(DependencyEntries[i], ":")[2], "/")[1],
     name |-> SplitN2(SplitN2(DependencyEntries[i], ":")[2], "/")[2]] :
    i \in {j \in 1..Len(DependencyEntries) : WellFormedEntry(DependencyEntries[j])} }

\* A replicas=0 patch was issued for dependency d.
Patched(d) ==
  \E i \in 1..Len(patches) :
     /\ patches[i].role = "dep"
     /\ patches[i].kind = d.kind
     /\ patches[i].namespace = d.namespace
     /\ patches[i].name = d.name

\* C6: once scale-to-zero is triggered and the workload's annotation has
\* been read, a replicas=0 patch is issued for every dependency the
\* annotation declares, whichever of the patches before it failed.
C6_EveryDependencyPatched ==
  (patches # <<>> /\ lastGet = "ok") =>
     \A d \in DeclaredDependencies : Patched(d)

\* C8: a malformed entry of the dependencies annotation is skipped: the
\* operation that parses the annotation runs to completion and the
\* remaining entries are processed.
C8_MalformedEntrySkipped ==
  /\ colPc # "crashed"
  /\ lastGet = "ok" =>
       Cardinality({i \in 1..Len(patches) : patches[i].role = "dep"}) =
       Cardinality({i \in 1..Len(DependencyEntries) :
                      WellFormedEntry(DependencyEntries[i])})

\* The requests that have passed the counting step of handleRequest.
Counted == {r \in Requests : req[r].counted}

\* C2: once N non-ignored requests have passed the counting step, the
\* shared requestCount is its initial value plus N (in the counter's
\* arithmetic), whatever the interleaving; each of them saw a value of its
\* own, so no increment is lost or applied twice.
C2_NoLostIncrement ==
  /\ requestCount = (initialCount + Cardinality(Counted)) % CounterModulus
  /\ \A r1, r2 \in Counted : r1 # r2 => req[r1].attr # req[r2].attr

\* Two requests have been counted, both after both had entered the handler.
C2_Witness ==
  /\ Cardinality(Counted) >= 2
  /\ requestCount = (initialCount + 2) % CounterModulus

\* What the claim calls an ignored request.
ClaimIgnored(r) == r.path \in ignoredPaths \/ Contains(r.ua, "kube-probe")

\* C3: a request whose path is in ignoredPaths or whose User-Agent contains
\* "kube-probe" leaves requestCount unchanged and goes on to be forwarded;
\* every other request adds exactly one to requestCount, and only then is
\* it forwarded.
C3_IgnoredNotCounted ==
  [][\A r \in Requests :
       /\ (req[r].pc = "handle" /\ req'[r].pc # "handle") =>
             /\ req'[r].pc = "forward"
             /\ ClaimIgnored(req[r]) =>
                  (requestCount' = requestCount /\ ~req'[r].counted)
             /\ ~ClaimIgnored(req[r]) =>
                  /\ requestCount' = (requestCount + 1) % CounterModulus
                  /\ req'[r].counted
       /\ (req[r].pc = "forward" /\ req'[r].pc # "forward") =>
             /\ req'[r].pc = "done"
             /\ requestCount' = requestCount
             /\ req[r].counted <=> ~ClaimIgnored(req[r])]_vars

\* A request the claim calls ignored and one it does not have both been
\* forwarded, and the counter went up by one.
C3_Witness ==
  \E r1, r2 \in Requests :
     /\ req[r1].pc = "done" /\ ClaimIgnored(req[r1]) /\ ~req[r1].counted
     /\ req[r2].pc = "done" /\ ~ClaimIgnored(req[r2]) /\ req[r2].counted
     /\ requestCount = (initialCount + 1) % CounterModulus

\* C7: cleaning is idempotent: cleaning a cleaned value changes nothing.
C7_CleanIdempotent ==
  cleanPc = "twice" => cleanTwice = cleanOnce

\* --- host index ---

RECURSIVE LastIndexOf(_, _, _)
\* The last position at or before i where token sep stands in s; 0 if none.
LastIndexOf(s, sep, i) ==
  IF i < 1 THEN 0
  ELSE IF s[i] = sep THEN i
  ELSE LastIndexOf(s, sep, i - 1)

RECURSIVE Atoi(_)
\* The number a sequence of decimal digits denotes.
Atoi(s) ==
  IF s = <<>> THEN 0
  ELSE 10 * Atoi(SubSeq(s, 1, Len(s) - 1))
       + ((CHOOSE d \in 1..Len(Digits) : Digits[d] = s[Len(s)]) - 1)

\* The port suffix of a key of the index: the digits after its last ':'.
PortSuffix(k) ==
  LET i == LastIndexOf(k, ":", Len(k))
  IN  IF i > 0 /\ IsDigits(SubSeq(k, i + 1, Len(k)))
      THEN [has |-> TRUE, port |-> Atoi(SubSeq(k, i + 1, Len(k)))]
      ELSE [has |-> FALSE, port |-> 0]

\* The services of a.services.
ServiceSet == {services[i] : i \in 1..Len(services)}

\* The service an app of the index belongs to.
ServiceOfApp(a) ==
  CHOOSE s \in ServiceSet :
    s.Namespace = a.Namespace /\ s.Name = a.ServiceName

\* C4 (as stated): every key of the published map points to an App whose
\* targetURL port equals the port suffix of the key, or the key has no port
\* suffix and the App's port is 80 or the service's ingressDefaultPort.
C4_KeyPortIsAppPort ==
  \A k \in DOMAIN appsByHost :
    LET a == appsByHost[k]
        suffix == PortSuffix(k)
    IN  IF suffix.has THEN a.TargetURL.Port = suffix.port
        ELSE \/ a.TargetURL.Port = 80
             \/ Itoa(a.TargetURL.Port) = IngressDefaultPort(ServiceOfApp(a))

\* The hosts of a service that updateIndex indexes with and without port.
ServiceHosts(s) ==
  {svcDNSNames(s)[i] : i \in 1..4} \cup {s.ClusterIP}
  \cup {LoadBalancerIPs(s)[i] : i \in 1..Len(LoadBalancerIPs(s))}
  \cup {cleanAnnotationValue(s.Annotations[k]) :
          k \in LoadBalancerHostnameKeys(s)}

\* The hosts its ingressHostname annotations name.
IngressHosts(s) ==
  {cleanAnnotationValue(s.Annotations[k]) : k \in IngressHostnameKeys(s)}

\* C4 (amended): every key of the published map points to an App of a
\* service s whose targetURL port is the port of a service port p of s that
\* formed the key: the key is a host of s followed by ":<p.Port>"; or a
\* host of s as it stands, and p.Port is 80; or an ingressHostname value of
\* s as it stands, and p.Port is the ingressDefaultPort of s; or a node
\* address followed by ":<p.NodePort>", and p.NodePort is not 0.
C4_KeyFormedFromAppPort ==
  \A k \in DOMAIN appsByHost :
    LET a == appsByHost[k]
    IN  \E s \in ServiceSet :
          /\ s.Namespace = a.Namespace
          /\ s.Name = a.ServiceName
          /\ a.TargetURL.Host = s.ClusterIP
          /\ \E i \in 1..Len(s.Ports) :
               LET p == s.Ports[i]
               IN  /\ a.TargetURL.Port = p.Port
                   /\ \/ \E h \in ServiceHosts(s) : k = HostPort(h, p.Port)
                      \/ p.Port = 80 /\ k \in ServiceHosts(s)
                      \/ /\ Itoa(p.Port) = IngressDefaultPort(s)
                         /\ k \in IngressHosts(s)
                      \/ /\ p.NodePort # 0
                         /\ \E n \in nodeAddresses :
                              k = HostPort(n, p.NodePort)

\* A published index with a nodeAddress:nodePort key, a key without port
\* suffix and an annotated hostname that ends in a port of its own.
C4_Witness ==
  /\ runs > 0
  /\ \E k \in DOMAIN appsByHost : \E n \in nodeAddresses :
       PortSuffix(k).has /\ k = HostPort(n, PortSuffix(k).port)
  /\ \E k \in DOMAIN appsByHost : ~PortSuffix(k).has
  /\ \E k \in DOMAIN appsByHost : \E s \in ServiceSet :
       k \in IngressHosts(s) /\ PortSuffix(k).has

\* C9: two runs of updateIndex over the same services, workloads and node
\* addresses publish the same host-to-App mapping.
C9_SameIndexTwice == runs >= 2 => appsByHost = prevIndex

\* The keys a service claims when indexed alone.
ClaimedKeys(svc) ==
  DOMAIN IndexService(EmptyMap, svc,
                      CHOOSE o \in ServiceOrders(svc, 1) : TRUE).appsByHost

\* Two runs have completed over two services that claim a common key, the
\* first of which has two ingressHostname annotations and two ports.
C9_Witness ==
  /\ runs >= 2
  /\ Len(services) = 2
  /\ ClaimedKeys(services[1]) \cap ClaimedKeys(services[2]) # {}
  /\ Cardinality(IngressHosts(services[1])) >= 2
  /\ Len(services[1].Ports) >= 2
  /\ nodeAddresses # {}

RECURSIVE IndexAll(_, _)
\* The map a complete, uninterrupted pass over a.services builds.
IndexAll(m, i) ==
  IF i > Len(services) THEN m
  ELSE IndexAll(
         IndexService(m, services[i],
                      CHOOSE o \in ServiceOrders(services[i], 1) : TRUE
                     ).appsByHost,
         i + 1)

CompleteIndex == IndexAll(EmptyMap, 1)

\* C10: the published index, and so the map any reader gets from it, is
\* always a complete map: the one the last completed run built (the empty
\* initial map before the first run completes), never the part that the
\* run in progress has built so far.
C10_ReadersSeeCompleteMap ==
  /\ appsByHost = IF runs = 0 THEN EmptyMap ELSE CompleteIndex
  /\ observed.read => observed.map \in {EmptyMap, CompleteIndex}

\* A reader has read the published index, and a rebuild is half-way: its
\* local map holds the entries of the first of two services only.
C10_Witness ==
  /\ idxPc = "building"
  /\ Len(services) = 2
  /\ nextSvc = 2
  /\ building # EmptyMap
  /\ building # CompleteIndex
  /\ observed.read
  /\ observed.map = appsByHost

\* --- annotation cleaning, as specified ---

\* The cleaning the spec describes: whitespace trimmed, then at most one
\* leading and at most one trailing single quote removed.
SpecifiedClean(raw) ==
  LET v == TrimSpace(raw)
      v1 == IF v # <<>> /\ Head(v) \in Quote THEN Tail(v) ELSE v
      v2 == IF v1 # <<>> /\ v1[Len(v1)] \in Quote
            THEN SubSeq(v1, 1, Len(v1) - 1) ELSE v1
  IN  v2

\* The ingressHostname values that the index owes a service whose
\* ingressDefaultPort annotation, once cleaned, names one of its ports.
OwedIngressHosts(s) ==
  IF /\ WorkloadOf(s).name # <<>>
     /\ <<"osiris.dm.gg/ingressDefaultPort">> \in DOMAIN s.Annotations
     /\ \E i \in 1..Len(s.Ports) :
          Itoa(s.Ports[i].Port) =
            SpecifiedClean(s.Annotations[<<"osiris.dm.gg/ingressDefaultPort">>])
  THEN {SpecifiedClean(s.Annotations[k]) : k \in IngressHostnameKeys(s)}
  ELSE {}

\* C11: cleanAnnotationValue returns its input with the surrounding
\* whitespace removed and then at most one leading and one trailing quote
\* removed, and every recognised annotation value is cleaned before it is
\* used: an ingressDefaultPort annotation that names a port of the service
\* once cleaned makes the index hold the service's ingressHostname values.
C11_CleanedAsSpecified ==
  /\ cleanPc # "raw" => cleanOnce = SpecifiedClean(rawValue)
  /\ runs > 0 =>
       \A s \in ServiceSet : OwedIngressHosts(s) \subseteq DOMAIN appsByHost

\* --- collector ticks ---

\* The tick in progress ends with this step: its decision is taken.
TickEnds == colPc = "scraping" /\ colPc' # "scraping"

\* What the tick's decision sees: every scrape has returned, none of them
\* nil, the timer has not fired, and the total is the last total.
IdleTick ==
  /\ pending = {}
  /\ ~tickNil
  /\ ~timerFired
  /\ TotalRequestCount(requestCountsByProxy) = lastTotalRequestCount

\* C12 (as stated): on every tick on which no scrape returned nil, the
\* timer did not fire and the total equals the last total, a scale-to-zero
\* patch is issued.
C12_IdleTickPatches ==
  [][(TickEnds /\ IdleTick) => patches' # <<>>]_vars

\* C12 (amended): on every such tick whose decision does not find the
\* collector's context cancelled, a scale-to-zero patch is issued, whether
\* or not the patch of the tick before failed.
C12_IdleTickPatchesUnlessCancelled ==
  [][(TickEnds /\ IdleTick /\ ~cancelled) => patches' # <<>>]_vars

\* A tick has issued a patch that failed, the collector waits for its next
\* tick, and the counts of its pods still add up to the last total.
C12_Witness ==
  /\ colPc = "wait"
  /\ patches # <<>>
  /\ ~patches[1].ok
  /\ appPods # {}
  /\ requestCountsByProxy # <<>>
  /\ TotalRequestCount(requestCountsByProxy) = lastTotalRequestCount

\* C13: a scale-to-zero patch is issued on a tick only if a tick before it
\* has run to its end and the tick's total equals the total of that tick;
\* the collector's first tick issues none.
C13_PatchNeedsTwoTicks ==
  [][(patches = <<>> /\ patches' # <<>>) =>
       /\ tickCompleted
       /\ TotalRequestCount(requestCountsByProxy) = lastTotalRequestCount]_vars

\* C14: once the collector's context is cancelled, and with every scrape
\* in flight returning, collectMetrics leaves its loop (run returns) and
\* the pod informer stops; and the tick whose decision finds the context
\* cancelled leaves the loop without a patch.
C14_CancelStopsCollector ==
  /\ cancelled ~> (colPc = "exited" /\ informer = "stopped")
  /\ [][(TickEnds /\ colPc' = "exited") => patches' = <<>>]_vars

\* The collector was cancelled after a completed tick, has left its loop
\* and its informer has stopped.
C14_Witness ==
  /\ cancelled
  /\ tickCompleted
  /\ colPc = "exited"
  /\ informer = "stopped"

\* --- proxy shutdown ---

\* C15: once run's context is cancelled the server stops accepting
\* connections and gives the requests in flight up to five seconds, and
\* only then run returns: when run has returned from a server that was
\* shut down, no request is in flight or the five seconds are over.  When
\* the server stops on its own, run returns with doneCh closed, so that
\* the goroutine waiting for the cancellation ends as well.
C15_DrainThenReturn ==
  /\ (runPc = "returned" /\ srvState = "shutdown") =>
        (InFlight = {} \/ drainExpired)
  /\ runPc = "returned" => doneCh

\* The records of key k that have not been evicted or deleted.
LiveRecords(k) ==
  {i \in DOMAIN actRecords : actRecords[i].live /\ actRecords[i].key = k}

\* C16: activation is single-flight.  A key has at most one record at any
\* time; the task of a record issues no replicas patch before its step 3
\* and exactly one from then on, so a record that is Ready stands for one
\* patch however many requests waited on it; and a request that arrives
\* while the key has a record waits on that record.
C16_SingleFlight ==
  /\ \A k \in ActKeys : Cardinality(LiveRecords(k)) <= 1
  /\ \A i \in DOMAIN actRecords :
       /\ actRecords[i].patched <= 1
       /\ actRecords[i].pc \in {"start", "deps", "waitDeps", "patch"} =>
            actRecords[i].patched = 0
       /\ (actRecords[i].pc = "poll" \/ actRecords[i].state = "Ready") =>
            actRecords[i].patched = 1
  /\ \A r \in ActRequests :
       actReq[r].pc = "waiting" =>
         /\ actRecords[actReq[r].rec].key = actReq[r].key
         /\ actRecords[actReq[r].rec].live =>
              LiveRecords(actReq[r].key) = {actReq[r].rec}

\* A burst of requests for one key was served by one record and one
\* patch.
C16_Witness ==
  /\ \A r \in ActRequests :
       actReq[r].pc = "forwarded" /\ actReq[r].key = KeyDb /\ actReq[r].rec = 1
  /\ actRecords[1].patched = 1
  /\ Len(actRecords) = 1

\* --- the default ingress port ---

\* The default port as described: the annotated value; else the only port;
\* else the port named "http"; else 80 if exposed; else none.
SpecifiedDefaultPort(s) ==
  LET key == <<"osiris.dm.gg/ingressDefaultPort">>
      named == {i \in 1..Len(s.Ports) : s.Ports[i].Name = <<"http">>}
  IN  IF key \in DOMAIN s.Annotations THEN s.Annotations[key]
      ELSE IF Len(s.Ports) = 1 THEN Itoa(s.Ports[1].Port)
      ELSE IF named # {}
      THEN Itoa(s.Ports[CHOOSE i \in named : \A j \in named : i <= j].Port)
      ELSE IF \E i \in 1..Len(s.Ports) : s.Ports[i].Port = 80
      THEN <<"8", "0">>
      ELSE <<>>

\* The keys of the published index whose app is an app of service s.
KeysOfService(s) ==
  {k \in DOMAIN appsByHost :
     /\ appsByHost[k].Namespace = s.Namespace
     /\ appsByHost[k].ServiceName = s.Name}

\* C17: for every service, updateIndex's ingressDefaultPort is the annotated
\* value if the annotation is present, else the only port of a one-port
\* service, else the port named "http", else 80 if the service exposes it,
\* else unset; and a service whose default port is unset has none of its
\* ingressHostname values in the index.
C17_DefaultPortSelection ==
  \A s \in ServiceSet :
    /\ IngressDefaultPort(s) = SpecifiedDefaultPort(s)
    /\ (runs > 0 /\ IngressDefaultPort(s) = <<>>) =>
         IngressHosts(s) \cap KeysOfService(s) = {}

\* An index was published that holds keys of a service with a workload,
\* several ports, ingressHostname annotations and no default port.
C17_Witness ==
  /\ runs > 0
  /\ \E s \in ServiceSet :
       /\ <<"osiris.dm.gg/ingressDefaultPort">> \notin DOMAIN s.Annotations
       /\ Len(s.Ports) >= 2
       /\ IngressDefaultPort(s) = <<>>
       /\ IngressHosts(s) # {}
       /\ KeysOfService(s) # {}

\* --- the keys of a service ---

\* The workload name a service's annotations give: the deployment
\* annotation's, else the statefulset annotation's, else none.
BoundWorkloadName(s) ==
  IF <<"osiris.dm.gg/deployment">> \in DOMAIN s.Annotations
  THEN cleanAnnotationValue(s.Annotations[<<"osiris.dm.gg/deployment">>])
  ELSE IF <<"osiris.dm.gg/statefulset">> \in DOMAIN s.Annotations
  THEN cleanAnnotationValue(s.Annotations[<<"osiris.dm.gg/statefulset">>])
  ELSE <<>>

\* The keys port p of service s is described to contribute.
SpecifiedPortKeys(s, p) ==
  {HostPort(h, p.Port) : h \in ServiceHosts(s)}
  \cup (IF p.Port = 80 THEN ServiceHosts(s) ELSE {})
  \cup (IF Itoa(p.Port) = SpecifiedDefaultPort(s) THEN IngressHosts(s)
        ELSE {})
  \cup (IF p.NodePort # 0
        THEN {HostPort(n, p.NodePort) : n \in nodeAddresses}
        ELSE {})

\* The keys service s is described to contribute.
SpecifiedKeys(s) ==
  IF BoundWorkloadName(s) = <<>> THEN {}
  ELSE UNION {SpecifiedPortKeys(s, s.Ports[i]) : i \in 1..Len(s.Ports)}

\* C18: the index published for a single service has exactly these keys.
\* For each port p of a workload-bound service: the four DNS names, the
\* cluster IP, the non-empty load-balancer IPs and the loadBalancerHostname
\* values, each followed by ":p"; the same hosts as they stand if p is 80;
\* the ingressHostname values as they stand if p is the ingressDefaultPort;
\* and each node address followed by ":nodePort" if the nodePort is not 0.
\* A service without deployment or statefulset annotation, or whose
\* workload name is empty, has no key.
C18_KeysOfSingleService ==
  (runs > 0 /\ Len(services) = 1) =>
    DOMAIN appsByHost = SpecifiedKeys(services[1])

\* An index was published for one service that has a load-balancer IP, a
\* loadBalancerHostname, an ingressHostname, port 80 and a second port that
\* is its default port, a node port, and nodes to reach it at.
C18_Witness ==
  /\ runs > 0
  /\ Len(services) = 1
  /\ LET s == services[1]
     IN  /\ BoundWorkloadName(s) # <<>>
         /\ Len(LoadBalancerIPs(s)) > 0
         /\ LoadBalancerHostnameKeys(s) # {}
         /\ IngressHosts(s) # {}
         /\ \E i, j, n \in 1..Len(s.Ports) :
              /\ s.Ports[i].Port = 80
              /\ s.Ports[j].Port # 80
              /\ Itoa(s.Ports[j].Port) = IngressDefaultPort(s)
              /\ s.Ports[n].NodePort # 0
  /\ nodeAddresses # {}
  /\ \E k \in DOMAIN appsByHost : k \in IngressHosts(services[1])

\* --- the tick's snapshot of appPods ---

\* C19: the pods a tick scrapes are the content of m.appPods at one
\* instant.  m.appPods does not change while the tick holds appPodsLock, and
\* when the tick releases it the scrapes launched are those of exactly the
\* pods of m.appPods; the lock is not held while the tick waits for the
\* scrapes, so pod events are not kept waiting that long; and from then to
\* the tick's decision, whatever events arrive, the pods scraped and
\* waited for stay those launched.
C19_TickSnapshot ==
  /\ [][appPodsLock = "tick" => appPods' = appPods]_vars
  /\ [][(appPodsLock = "tick" /\ appPodsLock' = "free") =>
          tickPods' = appPods]_vars
  /\ [](colPc = "scraping" => appPodsLock = "free")
  /\ [][(colPc = "scraping" /\ colPc' = "scraping") =>
          (tickPods' = tickPods /\ pending' \subseteq pending)]_vars
  /\ [](pending \subseteq tickPods)

\* Scrapes are in flight, and pod events since the tick's start have made
\* m.appPods differ from the pods the tick scrapes.
C19_Witness ==
  /\ colPc = "scraping"
  /\ pending # {}
  /\ tickPods # appPods
  /\ appPods # {}

\* --- the last total ---

\* C20: each tick that runs to its end leaves lastTotalRequestCount at the
\* tick's total, the sum of requestCountsByProxy: whether the timer had
\* fired, a scrape had failed, the total had changed or the workload was
\* scaled to zero.  Nothing else changes lastTotalRequestCount.
C20_LastTotalSetEveryTick ==
  /\ [][(TickEnds /\ colPc' = "wait") =>
          lastTotalRequestCount' = TotalRequestCount(requestCountsByProxy)]_vars
  /\ [][lastTotalRequestCount' # lastTotalRequestCount =>
          (TickEnds /\ colPc' = "wait")]_vars

\* The last tick ended with mustNotDecide set, and lastTotalRequestCount is
\* its total, which is not zero.
C20_Witness ==
  /\ colPc = "wait"
  /\ lastTickSkipped
  /\ lastTotalRequestCount # 0
  /\ lastTotalRequestCount = TotalRequestCount(requestCountsByProxy)

\* --- the table of counts ---

\* The sum of the table, as a number without width.
ExactTotal(counts) == SumCounts(counts, DOMAIN counts)

\* The table is never cleared: a step keeps every proxy ID and changes the
\* entry of one ID at most, to the count the scrape of a pod returned.
TableKept ==
  /\ DOMAIN requestCountsByProxy \subseteq DOMAIN requestCountsByProxy'
  /\ requestCountsByProxy' # requestCountsByProxy =>
       \E pod \in DOMAIN tickReports' :
         LET report == tickReports'[pod]
         IN  /\ pod \in pending /\ pod \notin pending'
             /\ DOMAIN requestCountsByProxy' =
                  DOMAIN requestCountsByProxy \cup {report.ProxyID}
             /\ requestCountsByProxy'[report.ProxyID] = report.RequestCount
             /\ \A id \in DOMAIN requestCountsByProxy \ {report.ProxyID} :
                  requestCountsByProxy'[id] = requestCountsByProxy[id]

\* C21 (as stated): the table is never cleared, so a tick's total is the
\* sum of the last count scraped from every proxy ID ever seen; and with
\* proxies whose counters never go down, the total of a tick that runs to
\* its end is never below the total of the tick before it.
C21_TotalNeverDecreases ==
  /\ [][TableKept]_vars
  /\ [][(TickEnds /\ colPc' = "wait") =>
          TotalRequestCount(requestCountsByProxy) >= lastTotalRequestCount]_vars

\* C21 (amended): the same, as long as the sum of the table fits the
\* counter's width.
C21_TotalNeverDecreasesBelowWidth ==
  /\ [][TableKept]_vars
  /\ [][(TickEnds /\ colPc' = "wait"
          /\ ExactTotal(requestCountsByProxy) < CounterModulus) =>
          TotalRequestCount(requestCountsByProxy) >= lastTotalRequestCount]_vars

\* A tick has run to its end with no pod left, and the total is still the
\* sum of the counts of the two proxies seen before.
C21_Witness ==
  /\ colPc = "wait"
  /\ tickCompleted
  /\ appPods = {}
  /\ DOMAIN requestCountsByProxy = ProxyIDs
  /\ \A id \in ProxyIDs : requestCountsByProxy[id] > 0
  /\ lastTotalRequestCount = ExactTotal(requestCountsByProxy)

\* --- no false idleness ---

\* C22: with proxies whose counters never go down and counts that do not
\* wrap (the sum of the table fits the counter's width), a tick that
\* issues a scale-to-zero patch has a report from every pod of its
\* snapshot, and each report is the count the table held for its proxy ID
\* (0 for an ID the table did not hold): no proxy of the snapshot counted a
\* request since its last scrape.
C22_NoFalseIdleness ==
  [][(TickEnds /\ patches' # <<>>
      /\ ExactTotal(requestCountsByProxy) < CounterModulus) =>
       \A pod \in tickPods :
         /\ pod \in DOMAIN tickReports
         /\ tickReports[pod].RequestCount = tickReports[pod].recorded]_vars

\* A tick has issued the patch after both pods reported the counts, not
\* zero, that the table held for their proxies.
C22_Witness ==
  /\ colPc = "wait"
  /\ patches # <<>>
  /\ DOMAIN tickReports = Pods
  /\ \A pod \in Pods :
       /\ tickReports[pod].RequestCount > 0
       /\ tickReports[pod].RequestCount = tickReports[pod].recorded
  /\ tickReports["pod-1"].ProxyID # tickReports["pod-2"].ProxyID

=============================================================================
